---------------------------- MODULE Spec2Model ----------------------------
(***************************************************************************)
(* A model of the idanalyzer Go SDK: the four facades (CoreAPI,            *)
(* DocuPassAPI, VaultAPI, AMLAPI), their configuration setters, the media  *)
(* argument classification of the payload builders, and the single POST    *)
(* each action issues.                                                     *)
(*                                                                         *)
(* Go strings that the code parses (URLs, IP addresses, patterns, media    *)
(* arguments) are sequences of one-character strings, so that parsing is   *)
(* computed and not assumed.  Strings the code only stores and copies      *)
(* (names, database lists, error messages) are TLA+ strings.               *)
(***************************************************************************)
EXTENDS Integers, Sequences, FiniteSets, TLC

(***************************************************************************)
(* Characters and Go string helpers                                        *)
(***************************************************************************)
LowerSeq == <<"a","b","c","d","e","f","g","h","i","j","k","l","m",
              "n","o","p","q","r","s","t","u","v","w","x","y","z">>

UpperSeq == <<"A","B","C","D","E","F","G","H","I","J","K","L","M",
              "N","O","P","Q","R","S","T","U","V","W","X","Y","Z">>

DigitSeq == <<"0","1","2","3","4","5","6","7","8","9">>

Range(s) == {s[i] : i \in DOMAIN s}

Lower == Range(LowerSeq)

Upper == Range(UpperSeq)

Digit == Range(DigitSeq)

Letter == Lower \cup Upper

IndexIn(c, s) == CHOOSE i \in DOMAIN s : s[i] = c

\* strconv / unhex: the value of one hexadecimal digit, -1 for any other byte
HexVal(c) ==
    IF c \in Digit THEN IndexIn(c, DigitSeq) - 1
    ELSE IF c \in {"a","b","c","d","e","f"} THEN IndexIn(c, LowerSeq) + 9
    ELSE IF c \in {"A","B","C","D","E","F"} THEN IndexIn(c, UpperSeq) + 9
    ELSE -1

IsHex(c) == HexVal(c) >= 0

IsHexSet == Digit \cup {"a","b","c","d","e","f","A","B","C","D","E","F"}

DigitVal(c) == IndexIn(c, DigitSeq) - 1

\* strings.ToLower on ASCII
ToLowerChar(c) == IF c \in Upper THEN LowerSeq[IndexIn(c, UpperSeq)] ELSE c

ToLower(s) == [i \in DOMAIN s |-> ToLowerChar(s[i])]

\* s[from:] and s[:to] of Go, with 1-based TLA+ positions
Drop(s, n) == SubSeq(s, n + 1, Len(s))

Take(s, n) == SubSeq(s, 1, n)

HasPrefix(s, p) == Len(s) >= Len(p) /\ Take(s, Len(p)) = p

\* strings.Index / strings.LastIndex of a single byte: 0 when absent
Index(s, c) ==
    IF \E i \in DOMAIN s : s[i] = c
    THEN CHOOSE i \in DOMAIN s : s[i] = c /\ \A j \in 1..(i - 1) : s[j] # c
    ELSE 0

LastIndex(s, c) ==
    IF \E i \in DOMAIN s : s[i] = c
    THEN CHOOSE i \in DOMAIN s : s[i] = c /\ \A j \in (i + 1)..Len(s) : s[j] # c
    ELSE 0

AllIn(s, set) == \A i \in DOMAIN s : s[i] \in set

\* n copies of the byte c
Repeat(c, n) == [i \in 1..n |-> c]


(***************************************************************************)
(* net/url.ParseRequestURI, as the Go standard library computes it for the *)
(* printable ASCII bytes of this model (no control bytes, no bytes >=      *)
(* 0x80).  The result is the parsed URL: err, Scheme, Host, Opaque, Path.  *)
(***************************************************************************)
SchemeTail == Digit \cup {"+", "-", "."}

\* the first position at which getScheme stops scanning, 0 if it reaches the end
SchemeStop(raw) ==
    LET stops(i) == raw[i] \notin Letter /\ ~(raw[i] \in SchemeTail /\ i > 1)
    IN IF \E i \in DOMAIN raw : stops(i)
       THEN CHOOSE i \in DOMAIN raw : stops(i) /\ \A j \in 1..(i - 1) : ~stops(j)
       ELSE 0

\* getScheme: [err, scheme, rest]
getScheme(raw) ==
    LET i == SchemeStop(raw)
    IN IF i = 0 THEN [err |-> FALSE, scheme |-> <<>>, rest |-> raw]
       ELSE IF raw[i] # ":" THEN [err |-> FALSE, scheme |-> <<>>, rest |-> raw]
       ELSE IF i = 1 THEN [err |-> TRUE, scheme |-> <<>>, rest |-> <<>>]
       ELSE [err |-> FALSE, scheme |-> Take(raw, i - 1), rest |-> Drop(raw, i)]

\* validOptionalPort: "" or ":" followed by digits only
validOptionalPort(port) ==
    \/ port = <<>>
    \/ port[1] = ":" /\ AllIn(Drop(port, 1), Digit)

\* bytes unescape(host, encodeHost) accepts unescaped (shouldEscape is false)
HostSafe ==
    Letter \cup Digit \cup
    {"!", "$", "&", "'", "(", ")", "*", "+", ",", ";", "=", ":", "[", "]",
     "<", ">", "-", "_", ".", "~"}

\* unescape(s, mode) succeeds: every "%" starts a valid escape, and in a host
\* every other byte is host-safe and an escape below %80 is only "%25"
unescapeOK(s, isHost) ==
    \A i \in DOMAIN s :
        IF s[i] = "%"
        THEN /\ i + 2 <= Len(s)
             /\ IsHex(s[i + 1])
             /\ IsHex(s[i + 2])
             /\ isHost => (HexVal(s[i + 1]) >= 8 \/ SubSeq(s, i, i + 2) = <<"%", "2", "5">>)
        ELSE isHost => s[i] \in HostSafe

\* parseHost: [err, host]
parseHost(host) ==
    LET rb == LastIndex(host, "]")
        lc == LastIndex(host, ":")
        portOK == IF HasPrefix(host, <<"[">>)
                  THEN rb > 0 /\ validOptionalPort(Drop(host, rb))
                  ELSE lc > 0 => validOptionalPort(Drop(host, lc - 1))
    IN IF portOK /\ unescapeOK(host, TRUE)
       THEN [err |-> FALSE, host |-> host]
       ELSE [err |-> TRUE, host |-> <<>>]

UserinfoSafe ==
    Letter \cup Digit \cup
    {"-", ".", "_", ":", "~", "!", "$", "&", "'", "(", ")", "*", "+", ",",
     ";", "=", "%", "@"}

\* the userinfo test of parseAuthority: at is the last "@" (0 when absent),
\* h the parsed host that follows it
parseUserinfo(authority, at, h) ==
    IF h.err THEN h
    ELSE IF at = 0 THEN h
    ELSE IF AllIn(Take(authority, at - 1), UserinfoSafe)
             /\ unescapeOK(Take(authority, at - 1), FALSE)
    THEN h
    ELSE [err |-> TRUE, host |-> <<>>]

\* parseAuthority: [err, host]
parseAuthority(authority) ==
    parseUserinfo(authority, LastIndex(authority, "@"),
                  parseHost(Drop(authority, LastIndex(authority, "@"))))

URLError == [err |-> TRUE, Scheme |-> <<>>, Host |-> <<>>, Opaque |-> <<>>, Path |-> <<>>]

\* the end of parse: the authority must have parsed and the path must unescape
setPath(scheme, auth, path) ==
    IF auth.err \/ ~unescapeOK(path, FALSE) THEN URLError
    ELSE [err |-> FALSE, Scheme |-> scheme, Host |-> auth.host,
          Opaque |-> <<>>, Path |-> path]

\* rest began with "//": after is what follows, slash its first "/" (0 when absent)
cutAuthority(scheme, after, slash) ==
    setPath(scheme,
            parseAuthority(IF slash = 0 THEN after ELSE Take(after, slash - 1)),
            IF slash = 0 THEN <<>> ELSE Drop(after, slash - 1))

\* parse once the scheme and the query are cut off (viaRequest is true): a
\* rest without a leading "/" is opaque data when there is a scheme and an
\* error when there is none; an authority is read only after a scheme
parseRest(scheme, rest) ==
    IF ~HasPrefix(rest, <<"/">>)
    THEN IF scheme # <<>>
         THEN [err |-> FALSE, Scheme |-> scheme, Host |-> <<>>,
               Opaque |-> rest, Path |-> <<>>]
         ELSE URLError
    ELSE IF scheme # <<>> /\ HasPrefix(rest, <<"/", "/">>)
    THEN cutAuthority(scheme, Drop(rest, 2), Index(Drop(rest, 2), "/"))
    ELSE setPath(scheme, [err |-> FALSE, host |-> <<>>], rest)

\* gs is getScheme's result, q the first "?" of what follows the scheme
cutQuery(gs, q) ==
    IF gs.err THEN URLError
    ELSE parseRest(ToLower(gs.scheme), IF q = 0 THEN gs.rest ELSE Take(gs.rest, q - 1))

\* parse(rawURL, viaRequest = true)
ParseRequestURI(rawURL) ==
    IF rawURL = <<>> THEN URLError
    ELSE IF rawURL = <<"*">>
    THEN [err |-> FALSE, Scheme |-> <<>>, Host |-> <<>>, Opaque |-> <<>>, Path |-> rawURL]
    ELSE cutQuery(getScheme(rawURL), Index(getScheme(rawURL).rest, "?"))


(***************************************************************************)
(* net.ParseIP and the address predicates isPrivateIP uses.  An IP is its  *)
(* 16-byte form, as net.ParseIP returns it; <<>> is Go's nil.              *)
(***************************************************************************)
RECURSIVE Split(_, _)
\* strings.Split(s, c) for a one-byte separator
Split(s, c) ==
    LET i == Index(s, c)
    IN IF i = 0 THEN <<s>> ELSE <<Take(s, i - 1)>> \o Split(Drop(s, i), c)

RECURSIVE DecimalValue(_)
DecimalValue(s) ==
    IF s = <<>> THEN 0
    ELSE 10 * DecimalValue(Take(s, Len(s) - 1)) + DigitVal(s[Len(s)])

RECURSIVE HexValue(_)
HexValue(s) ==
    IF s = <<>> THEN 0
    ELSE 16 * HexValue(Take(s, Len(s) - 1)) + HexVal(s[Len(s)])

\* one decimal field of a dotted quad: 1 to 3 digits, no leading zero, <= 255
IsOctet(f) ==
    /\ Len(f) \in 1..3
    /\ AllIn(f, Digit)
    /\ Len(f) > 1 => f[1] # "0"
    /\ DecimalValue(f) <= 255

\* parseIPv4: the four bytes, or <<>>
parseIPv4(s) ==
    LET f == Split(s, ".")
    IN IF Len(f) = 4 /\ \A i \in 1..4 : IsOctet(f[i])
       THEN [i \in 1..4 |-> DecimalValue(f[i])]
       ELSE <<>>

v4InV6Prefix == <<0, 0, 0, 0, 0, 0, 0, 0, 0, 0, 255, 255>>

IsGroup(g) == Len(g) \in 1..4 /\ AllIn(g, IsHexSet)

RECURSIVE GroupBytes(_)
\* the bytes of a list of 16-bit groups; a trailing dotted quad gives 4 bytes
GroupBytes(gs) ==
    IF gs = <<>> THEN <<>>
    ELSE IF Index(gs[1], ".") > 0 THEN parseIPv4(gs[1]) \o GroupBytes(Tail(gs))
    ELSE <<HexValue(gs[1]) \div 256, HexValue(gs[1]) % 256>> \o GroupBytes(Tail(gs))

\* the sixteen bytes around a "::": left, zeros, right
ellipsis(left, right) ==
    IF Len(left) + Len(right) <= 14
    THEN left \o [i \in 1..(16 - Len(left) - Len(right)) |-> 0] \o right
    ELSE <<>>

full(bytes) == IF Len(bytes) = 16 THEN bytes ELSE <<>>

\* q is the list of groups, an empty one standing for the "::"
ipv6Groups(q) ==
    LET gaps == {i \in DOMAIN q : q[i] = <<>>}
        partOK(i) == \/ q[i] = <<>>
                     \/ IsGroup(q[i])
                     \/ i = Len(q) /\ parseIPv4(q[i]) # <<>>
        gap == CHOOSE i \in gaps : TRUE
    IN IF Cardinality(gaps) > 1 \/ ~\A i \in DOMAIN q : partOK(i) THEN <<>>
       ELSE IF gaps = {} THEN full(GroupBytes(q))
       ELSE ellipsis(GroupBytes(Take(q, gap - 1)), GroupBytes(Drop(q, gap)))

\* p is the text split at ":"; a leading or trailing ":" must be part of "::"
ipv6Parts(p, n) ==
    IF \/ n >= 2 /\ p[1] = <<>> /\ p[2] # <<>>
       \/ n >= 2 /\ p[n] = <<>> /\ p[n - 1] # <<>>
    THEN <<>>
    ELSE ipv6Groups(SubSeq(p, IF n >= 2 /\ p[1] = <<>> THEN 2 ELSE 1,
                           IF n >= 2 /\ p[n] = <<>> THEN n - 1 ELSE n))

\* parseIPv6 (no zone): the sixteen bytes, or <<>>
parseIPv6(s) == ipv6Parts(Split(s, ":"), Len(Split(s, ":")))

\* net.ParseIP: the first "." or ":" decides the family
ParseIP(s) ==
    LET dot == Index(s, ".")
        colon == Index(s, ":")
    IN IF colon > 0 /\ (dot = 0 \/ colon < dot) THEN parseIPv6(s)
       ELSE IF dot > 0
       THEN IF parseIPv4(s) = <<>> THEN <<>> ELSE v4InV6Prefix \o parseIPv4(s)
       ELSE <<>>

\* ip.To4(): the four bytes of an IPv4 or IPv4-mapped address, else <<>>
To4(ip) ==
    IF Len(ip) = 4 THEN ip
    ELSE IF Len(ip) = 16 /\ Take(ip, 12) = v4InV6Prefix THEN Drop(ip, 12)
    ELSE <<>>

IPv6loopback == <<0, 0, 0, 0, 0, 0, 0, 0, 0, 0, 0, 0, 0, 0, 0, 1>>

IsLoopback(ip) ==
    IF To4(ip) # <<>> THEN To4(ip)[1] = 127 ELSE ip = IPv6loopback

IsLinkLocalUnicast(ip) ==
    IF To4(ip) # <<>> THEN To4(ip)[1] = 169 /\ To4(ip)[2] = 254
    ELSE Len(ip) = 16 /\ ip[1] = 254 /\ ip[2] \div 64 = 2

IsLinkLocalMulticast(ip) ==
    IF To4(ip) # <<>> THEN To4(ip)[1] = 224 /\ To4(ip)[2] = 0 /\ To4(ip)[3] = 0
    ELSE Len(ip) = 16 /\ ip[1] = 255 /\ ip[2] % 16 = 2

\* net.IP.IsPrivate (Go 1.17 and later): RFC 1918 and RFC 4193 only
IsPrivate(ip) ==
    IF To4(ip) # <<>>
    THEN \/ To4(ip)[1] = 10
         \/ To4(ip)[1] = 172 /\ To4(ip)[2] \div 16 = 1
         \/ To4(ip)[1] = 192 /\ To4(ip)[2] = 168
    ELSE Len(ip) = 16 /\ ip[1] \div 2 = 126

\* the table init() loads: network number and prefix length of each CIDR
privateIPBlocks ==
    << [ip |-> <<127, 0, 0, 0>>, bits |-> 8],
       [ip |-> <<10, 0, 0, 0>>, bits |-> 8],
       [ip |-> <<172, 16, 0, 0>>, bits |-> 12],
       [ip |-> <<192, 168, 0, 0>>, bits |-> 16],
       [ip |-> <<169, 254, 0, 0>>, bits |-> 16],
       [ip |-> IPv6loopback, bits |-> 128],
       [ip |-> <<254, 128, 0, 0, 0, 0, 0, 0, 0, 0, 0, 0, 0, 0, 0, 0>>, bits |-> 10],
       [ip |-> <<252, 0, 0, 0, 0, 0, 0, 0, 0, 0, 0, 0, 0, 0, 0, 0>>, bits |-> 7] >>

Pow2(n) == CASE n = 0 -> 1 [] n = 1 -> 2 [] n = 2 -> 4 [] n = 3 -> 8 [] n = 4 -> 16
             [] n = 5 -> 32 [] n = 6 -> 64 [] n = 7 -> 128 [] OTHER -> 256

\* (*IPNet).Contains
Contains(block, ip) ==
    LET x == IF To4(ip) # <<>> THEN To4(ip) ELSE ip
        keep(i) == IF block.bits >= 8 * i THEN 8
                   ELSE IF block.bits <= 8 * (i - 1) THEN 0
                   ELSE block.bits - 8 * (i - 1)
    IN /\ Len(x) = Len(block.ip)
       /\ \A i \in DOMAIN x :
            x[i] \div Pow2(8 - keep(i)) = block.ip[i] \div Pow2(8 - keep(i))

\* isPrivateIP: with the IsPrivate method present the reflection call decides
\* alone; without it the manual checks run
isPrivateIP(ip, methodIsPrivate) ==
    IF methodIsPrivate THEN IsPrivate(ip)
    ELSE \/ IsLoopback(ip)
         \/ IsLinkLocalUnicast(ip)
         \/ IsLinkLocalMulticast(ip)
         \/ \E i \in DOMAIN privateIPBlocks : Contains(privateIPBlocks[i], ip)


(***************************************************************************)
(* encoding/base64, regexp, strconv and time, as the setters and the       *)
(* payload builders call them                                              *)
(***************************************************************************)
Base64Alphabet == UpperSeq \o LowerSeq \o DigitSeq \o <<"+", "/">>

B64(n) == Base64Alphabet[n + 1]

RECURSIVE EncodeToString(_)
\* base64.StdEncoding.EncodeToString: 3 bytes to 4 characters, "=" padding
EncodeToString(bytes) ==
    IF bytes = <<>> THEN <<>>
    ELSE IF Len(bytes) = 1
    THEN <<B64(bytes[1] \div 4), B64((bytes[1] % 4) * 16), "=", "=">>
    ELSE IF Len(bytes) = 2
    THEN <<B64(bytes[1] \div 4),
           B64((bytes[1] % 4) * 16 + bytes[2] \div 16),
           B64((bytes[2] % 16) * 4), "=">>
    ELSE <<B64(bytes[1] \div 4),
           B64((bytes[1] % 4) * 16 + bytes[2] \div 16),
           B64((bytes[2] % 16) * 4 + bytes[3] \div 64),
           B64(bytes[3] % 64)>> \o EncodeToString(Drop(bytes, 3))

\* regexp.MatchString(`^[0-9]{4}`, s)
MatchPasscode(s) == Len(s) >= 4 /\ AllIn(Take(s, 4), Digit)

\* the pattern without its closing anchor: `^\d+-\d+`
MatchAgeRange_NoEnd(s) ==
    LET h == Index(s, "-")
    IN /\ h > 1
       /\ h < Len(s)
       /\ AllIn(Take(s, h - 1), Digit)
       /\ s[h + 1] \in Digit

\* regexp.MatchString(`^\d+-\d+$`, s)
MatchAgeRange(s) ==
    LET h == Index(s, "-")
    IN /\ h > 1
       /\ h < Len(s)
       /\ AllIn(Take(s, h - 1), Digit)
       /\ AllIn(Drop(s, h), Digit)

\* strconv.ParseUint(s, 16, 0) returns no error and len(s) = 6
IsHexColor(s) == Len(s) = 6 /\ AllIn(s, IsHexSet)

DaysIn(year, month) ==
    IF month = 2
    THEN IF year % 4 = 0 /\ (year % 100 # 0 \/ year % 400 = 0) THEN 29 ELSE 28
    ELSE IF month \in {4, 6, 9, 11} THEN 30 ELSE 31

\* time.Parse("2006/01/02", s) returns no error
ParseDateOK(s) ==
    /\ Len(s) = 10
    /\ s[5] = "/"
    /\ s[8] = "/"
    /\ AllIn(Take(s, 4), Digit)
    /\ AllIn(SubSeq(s, 6, 7), Digit)
    /\ AllIn(SubSeq(s, 9, 10), Digit)
    /\ DecimalValue(SubSeq(s, 6, 7)) \in 1..12
    /\ DecimalValue(SubSeq(s, 9, 10)) >= 1
    /\ DecimalValue(SubSeq(s, 9, 10))
           <= DaysIn(DecimalValue(Take(s, 4)), DecimalValue(SubSeq(s, 6, 7)))


(***************************************************************************)
(* Values.  A float32 is a count of thousandths, or NaN; a Go map is a     *)
(* function from its keys to their values.                                 *)
(***************************************************************************)
F(m) == [nan |-> FALSE, milli |-> m]

NaN == [nan |-> TRUE, milli |-> 0]

\* a < b, a <= b, a > b on float32: every comparison with NaN is false
FLt(a, b) == ~a.nan /\ ~b.nan /\ a.milli < b.milli

FLe(a, b) == ~a.nan /\ ~b.nan /\ a.milli <= b.milli

FGt(a, b) == FLt(b, a)

EmptyMap == <<>>

(***************************************************************************)
(* The program state                                                       *)
(***************************************************************************)
VARIABLES
    session,         \* "config": calls in sequence; "media": one call at a time;
                     \* "endpoint": calls in sequence on a facade of any region
    regionGiven,     \* the region the constructors were given
    inst,            \* which facade this run constructed and drives
    methodIsPrivate, \* the build's net.IP has an IsPrivate method (Go >= 1.17)
    fs,              \* the file system: what os.Stat and os.ReadFile find per name
    core,            \* the CoreAPI value
    docupass,        \* the DocuPassAPI value
    aml,             \* the AMLAPI value
    vault,           \* the VaultAPI value
    vaultRevision,   \* which of the two texts of vault.go the build holds
    pre,             \* the facade values as they were when the last call began
    last,            \* the last call: its arguments and everything it returned or sent
    calls,           \* number of calls made so far
    race,            \* a setter and an action running at the same time on one facade
    probe            \* an address handed to isPrivateIP, and the answer

vars ==
    <<session, regionGiven, inst, methodIsPrivate, fs, core, docupass, aml, vault, vaultRevision, pre,
      last, calls, race, probe>>

(***************************************************************************)
(* common.go                                                               *)
(***************************************************************************)
endpointFromRegion_LowerCaseOnly(region, api) ==
    IF region \in {"us", ""} THEN "https://api.idanalyzer.com/" \o api
    ELSE IF region \in {"eu"} THEN "https://api-eu.idanalyzer.com/" \o api
    ELSE region \o "/" \o api

endpointFromRegion(region, api) ==
    IF region \in {"us", "US", ""} THEN "https://api.idanalyzer.com/" \o api
    ELSE IF region \in {"eu", "EU"} THEN "https://api-eu.idanalyzer.com/" \o api
    ELSE region \o "/" \o api

\* what the file system holds under a name
Absent == [stat |-> "notexist", readable |-> FALSE, bytes |-> <<>>]

StatFails == [stat |-> "error", readable |-> FALSE, bytes |-> <<>>]

Directory == [stat |-> "dir", readable |-> FALSE, bytes |-> <<>>]

RegularFile(bytes) == [stat |-> "file", readable |-> TRUE, bytes |-> bytes]

\* a regular file that os.ReadFile cannot read: its bytes are there all the same
UnreadableFile(bytes) == [stat |-> "file", readable |-> FALSE, bytes |-> bytes]

\* fileExists: "no" when os.Stat reports ENOENT; any other Stat error leaves
\* info nil and info.IsDir() panics; otherwise "yes" unless a directory
fileExists(f) ==
    IF f.stat = "notexist" THEN "no"
    ELSE IF f.stat = "error" THEN "panic"
    ELSE IF f.stat = "dir" THEN "no"
    ELSE "yes"

\* base64File: the encoded bytes, or "" when os.ReadFile fails
base64File(f) ==
    IF f.readable THEN EncodeToString(f.bytes) ELSE <<>>


(***************************************************************************)
(* core.go: configuration                                                  *)
(***************************************************************************)
defaultCoreConfig ==
    [ accuracy |-> 2,
      authenticate |-> FALSE,
      authenticateModule |-> "1",
      ocrScaledown |-> 2000,
      outputImage |-> FALSE,
      outputFace |-> FALSE,
      outputMode |-> "url",
      dualSideCheck |-> FALSE,
      verifyExpiry |-> TRUE,
      verifyDocumentNo |-> "",
      verifyName |-> "",
      verifyDOB |-> <<>>,
      verifyAge |-> <<>>,
      verifyAddress |-> "",
      verifyPostcode |-> "",
      country |-> "",
      region |-> "",
      docType |-> "",
      checkBlocklist |-> FALSE,
      vaultSave |-> TRUE,
      vaultSaveUnrecognized |-> FALSE,
      vaultNoDuplicate |-> FALSE,
      vaultAutoMerge |-> FALSE,
      vaultCustomData1 |-> "",
      vaultCustomData2 |-> "",
      vaultCustomData3 |-> "",
      vaultCustomData4 |-> "",
      vaultCustomData5 |-> "",
      barcodeMode |-> FALSE,
      biometricThreshold |-> F(400),
      amlCheck |-> FALSE,
      amlStrictMatch |-> FALSE,
      amlDatabase |-> "",
      contractGenerate |-> "",
      contractFormat |-> "",
      contractPrefillData |-> EmptyMap,
      client |-> "go-sdk" ]

\* NewCoreAPI with a non-empty key (an empty key constructs nothing)
NewCoreAPI(apiKey, region) ==
    [ apiKey |-> apiKey,
      apiEndpoint |-> endpointFromRegion(region, ""),
      config |-> defaultCoreConfig ]

\* what a setter hands back: the facade after the call and the error ("" is nil)
Ok(api) == [api |-> api, err |-> ""]

Fail(api, err) == [api |-> api, err |-> err]

\* a reset that forgets one field
CoreAPI_ResetConfig_KeepsAccuracy(c) ==
    [c EXCEPT !.config = [defaultCoreConfig EXCEPT !.accuracy = c.config.accuracy]]

CoreAPI_ResetConfig(c) == [c EXCEPT !.config = defaultCoreConfig]

\* a setter that accumulates instead of assigning
CoreAPI_SetAccuracy_Adds(c, accuracy) ==
    [c EXCEPT !.config.accuracy = c.config.accuracy + accuracy]

CoreAPI_SetAccuracy(c, accuracy) == [c EXCEPT !.config.accuracy = accuracy]

\* authenticate is assigned before the module is validated
CoreAPI_EnableAuthentication(c, authenticate, authModule) ==
    LET c1 == [c EXCEPT !.config.authenticate = authenticate]
    IN IF authModule # "1" /\ authModule # "2" /\ authModule # "quick"
       THEN Fail(c1, "invalid authentication module; \"1\", \"2\" or \"quick\" accepted")
       ELSE Ok([c1 EXCEPT !.config.authenticateModule = authModule])

CoreAPI_SetOCRImageResize(c, maxScale) ==
    IF maxScale # 0 /\ (maxScale < 500 \/ maxScale > 4000)
    THEN Fail(c, "invalid scale value; 0, or 500 to 4000 accepted")
    ELSE Ok([c EXCEPT !.config.ocrScaledown = maxScale])

CoreAPI_SetBiometricThreshold(c, threshold) ==
    IF FLe(threshold, F(0)) \/ FGt(threshold, F(1000))
    THEN Fail(c, "invalid threshold value; float32 between 0 to 1 accepted")
    ELSE Ok([c EXCEPT !.config.biometricThreshold = threshold])

\* EnableImageOutput without its test of the format
CoreAPI_EnableImageOutput_NoTest(c, cropDocument, cropFace, outputFormat) ==
    Ok([c EXCEPT !.config.outputImage = cropDocument,
                 !.config.outputFace = cropFace,
                 !.config.outputMode = outputFormat])

CoreAPI_EnableImageOutput(c, cropDocument, cropFace, outputFormat) ==
    IF outputFormat # "url" /\ outputFormat # "base64"
    THEN Fail(c, "invalid output format; \"url\" or \"base64\" accepted")
    ELSE Ok([c EXCEPT !.config.outputImage = cropDocument,
                      !.config.outputFace = cropFace,
                      !.config.outputMode = outputFormat])

CoreAPI_EnableDualSideCheck(c, enabled) == [c EXCEPT !.config.dualSideCheck = enabled]

CoreAPI_VerifyExpiry(c, enabled) == [c EXCEPT !.config.verifyExpiry = enabled]

CoreAPI_VerifyDocumentNumber(c, documentNumber) ==
    [c EXCEPT !.config.verifyDocumentNo = documentNumber]

CoreAPI_VerifyName(c, name) == [c EXCEPT !.config.verifyName = name]

CoreAPI_VerifyDOB(c, dob) ==
    IF ~ParseDateOK(dob)
    THEN Fail(c, "invalid birthday format (YYYY/MM/DD)")
    ELSE Ok([c EXCEPT !.config.verifyDOB = dob])

CoreAPI_VerifyAge(c, ageRange) ==
    IF ~MatchAgeRange(ageRange)
    THEN Fail(c, "invalid age range format (minAge-maxAge)")
    ELSE Ok([c EXCEPT !.config.verifyAge = ageRange])

CoreAPI_VerifyAddress(c, address) == [c EXCEPT !.config.verifyAddress = address]

CoreAPI_VerifyPostcode(c, postcode) == [c EXCEPT !.config.verifyPostcode = postcode]

CoreAPI_RestrictCountry(c, countryCodes) == [c EXCEPT !.config.country = countryCodes]

CoreAPI_RestrictState(c, states) == [c EXCEPT !.config.region = states]

CoreAPI_RestrictType(c, docTypes) == [c EXCEPT !.config.docType = docTypes]

CoreAPI_EnableBarcodeMode(c, enable) == [c EXCEPT !.config.barcodeMode = enable]

CoreAPI_EnableAMLCheck(c, enable) == [c EXCEPT !.config.amlCheck = enable]

CoreAPI_SetAMLDatabase(c, databases) == [c EXCEPT !.config.amlDatabase = databases]

CoreAPI_EnableAMLStrictMatch(c, enable) == [c EXCEPT !.config.amlStrictMatch = enable]

CoreAPI_EnableVault(c, enabled, saveUnrecognized, noDuplicateImage, autoMergeDocument) ==
    [c EXCEPT !.config.vaultSave = enabled,
              !.config.vaultSaveUnrecognized = saveUnrecognized,
              !.config.vaultNoDuplicate = noDuplicateImage,
              !.config.vaultAutoMerge = autoMergeDocument]

CoreAPI_SetVaultData(c, data1, data2, data3, data4, data5) ==
    [c EXCEPT !.config.vaultCustomData1 = data1,
              !.config.vaultCustomData2 = data2,
              !.config.vaultCustomData3 = data3,
              !.config.vaultCustomData4 = data4,
              !.config.vaultCustomData5 = data5]

CoreAPI_GenerateContract(c, templateId, format, prefillData) ==
    IF templateId = "" THEN Fail(c, "invalid template ID")
    ELSE IF format # "PDF" /\ format # "DOCX" /\ format # "HTML"
    THEN Fail(c, "invalid output file format")
    ELSE Ok([c EXCEPT !.config.contractGenerate = templateId,
                      !.config.contractFormat = format,
                      !.config.contractPrefillData = prefillData])


(***************************************************************************)
(* The transport: one http.Post, answered by the environment               *)
(***************************************************************************)
\* the "error" member of a response body: absent, null, present but not an
\* object, or an object whose "code" and "message" may each be missing
ErrAbsent == [kind |-> "absent", hasMessage |-> FALSE, message |-> "", code |-> 0]

ErrNull == [kind |-> "null", hasMessage |-> FALSE, message |-> "", code |-> 0]

ErrNotObject == [kind |-> "notobject", hasMessage |-> FALSE, message |-> "", code |-> 0]

ErrObject(code, hasMessage, message) ==
    [kind |-> "object", hasMessage |-> hasMessage,
     message |-> IF hasMessage THEN message ELSE "", code |-> code]

\* a response body: whether it is a JSON object at all, its "error" member,
\* and a stand-in for its other members
RawBody(valid, error, data) == [valid |-> valid, error |-> error, data |-> data]

\* the *APIError of a typed result: nil, or code and message
NoError == [present |-> FALSE, code |-> 0, message |-> ""]

APIError(code, message) == [present |-> TRUE, code |-> code, message |-> message]

\* a typed result: the Error pointer and a stand-in for the other fields
Body(error, data) == [error |-> error, data |-> data]

ZeroResult == Body(NoError, "")

\* json.Unmarshal(body, &result) into a struct with Error *APIError, errors
\* discarded: only an "error" that is an object sets the pointer
Unmarshal(raw) ==
    IF ~raw.valid THEN ZeroResult
    ELSE IF raw.error.kind = "object"
    THEN Body(APIError(raw.error.code, raw.error.message), raw.data)
    ELSE Body(NoError, raw.data)

ConnFail == [ok |-> FALSE, body |-> RawBody(FALSE, ErrAbsent, "")]

Reply(body) == [ok |-> TRUE, body |-> body]

ConnectError == "failed to connect to API server: connection refused"

\* json.Marshal: an error (and a nil body) for a NaN float, the JSON otherwise
Marshal(payload, floats) ==
    IF \E x \in floats : x.nan THEN [nil |-> TRUE] ELSE [nil |-> FALSE, json |-> payload]

\* one http.Post: the URL, the body and what the call returned
Request(url, body, net) == [url |-> url, body |-> body, answer |-> net]

\* fmt.Errorf("%d: %s", code, message)
CodeMessage(error) == ToString(error.code) \o ": " \o error.message

(***************************************************************************)
(* core.go: the payload builder and the scan actions                       *)
(***************************************************************************)
InlineMinLen == 100

\* classifyMedia with the file test tried before the URL test
classifyMedia_FileFirst(s, f) ==
    IF fileExists(f) = "panic" THEN [kind |-> "panic", url |-> <<>>, base64 |-> <<>>]
    ELSE IF fileExists(f) = "yes"
    THEN [kind |-> "file", url |-> <<>>, base64 |-> base64File(f)]
    ELSE IF ~ParseRequestURI(s).err THEN [kind |-> "url", url |-> s, base64 |-> <<>>]
    ELSE IF Len(s) > InlineMinLen THEN [kind |-> "inline", url |-> <<>>, base64 |-> s]
    ELSE [kind |-> "invalid", url |-> <<>>, base64 |-> <<>>]

\* one media argument: ParseRequestURI first, then fileExists, then the length
classifyMedia(s, f) ==
    IF ~ParseRequestURI(s).err THEN [kind |-> "url", url |-> s, base64 |-> <<>>]
    ELSE IF fileExists(f) = "panic" THEN [kind |-> "panic", url |-> <<>>, base64 |-> <<>>]
    ELSE IF fileExists(f) = "yes"
    THEN [kind |-> "file", url |-> <<>>, base64 |-> base64File(f)]
    ELSE IF Len(s) > InlineMinLen THEN [kind |-> "inline", url |-> <<>>, base64 |-> s]
    ELSE [kind |-> "invalid", url |-> <<>>, base64 |-> <<>>]

\* an argument that was not supplied leaves both of its fields empty
NotSupplied == [kind |-> "none", url |-> <<>>, base64 |-> <<>>]

\* the coreRequest literal at the top of scan
coreRequest(c) ==
    [ ApiKey |-> c.apiKey,
      Url |-> <<>>, UrlBack |-> <<>>, FaceUrl |-> <<>>, VideoUrl |-> <<>>,
      FileBase64 |-> <<>>, FileBackBase64 |-> <<>>, FaceBase64 |-> <<>>,
      VideoBase64 |-> <<>>, Passcode |-> <<>>,
      Accuracy |-> c.config.accuracy,
      Authenticate |-> c.config.authenticate,
      AuthenticateModule |-> c.config.authenticateModule,
      OcrScaledown |-> c.config.ocrScaledown,
      OutputImage |-> c.config.outputImage,
      OutputFace |-> c.config.outputFace,
      OutputMode |-> c.config.outputMode,
      DualSideCheck |-> c.config.dualSideCheck,
      VerifyExpiry |-> c.config.verifyExpiry,
      VerifyDocumentNo |-> c.config.verifyDocumentNo,
      VerifyName |-> c.config.verifyName,
      VerifyDOB |-> c.config.verifyDOB,
      VerifyAge |-> c.config.verifyAge,
      VerifyAddress |-> c.config.verifyAddress,
      VerifyPostcode |-> c.config.verifyPostcode,
      Country |-> c.config.country,
      Region |-> c.config.region,
      DocType |-> c.config.docType,
      CheckBlocklist |-> c.config.checkBlocklist,
      VaultSave |-> c.config.vaultSave,
      VaultSaveUnrecognized |-> c.config.vaultSaveUnrecognized,
      VaultNoDuplicate |-> c.config.vaultNoDuplicate,
      VaultAutoMerge |-> c.config.vaultAutoMerge,
      VaultCustomData1 |-> c.config.vaultCustomData1,
      VaultCustomData2 |-> c.config.vaultCustomData2,
      VaultCustomData3 |-> c.config.vaultCustomData3,
      VaultCustomData4 |-> c.config.vaultCustomData4,
      VaultCustomData5 |-> c.config.vaultCustomData5,
      BarcodeMode |-> c.config.barcodeMode,
      BiometricThreshold |-> c.config.biometricThreshold,
      AmlCheck |-> c.config.amlCheck,
      AmlStrictMatch |-> c.config.amlStrictMatch,
      AmlDatabase |-> c.config.amlDatabase,
      ContractGenerate |-> c.config.contractGenerate,
      ContractFormat |-> c.config.contractFormat,
      ContractPrefillData |-> c.config.contractPrefillData,
      Client |-> c.config.client ]

\* what a call hands back and does: the error ("" is nil), whether it
\* panicked instead of returning, the payload it had built when it ended,
\* the requests it posted, and the decoded result
Outcome(err, panicked, payload, sent, result) ==
    [err |-> err, panicked |-> panicked, payload |-> payload, sent |-> sent,
     result |-> result]

\* a call that ended before any payload literal was built
NoPayload == [none |-> TRUE]

Panic(payload) == Outcome("", TRUE, payload, <<>>, ZeroResult)

\* the payload once the media fields of the classified arguments are filled
withMedia(p, m1, m2, m3, m4) ==
    [p EXCEPT !.Url = m1.url, !.FileBase64 = m1.base64,
              !.UrlBack = m2.url, !.FileBackBase64 = m2.base64,
              !.FaceUrl = m3.url, !.FaceBase64 = m3.base64,
              !.VideoUrl = m4.url, !.VideoBase64 = m4.base64]

\* json.Marshal and http.Post at the end of scan
post(c, payload, net) ==
    IF ~net.ok
    THEN Outcome(ConnectError, FALSE, payload,
                 <<Request(c.apiEndpoint, Marshal(payload, {payload.BiometricThreshold}), net)>>,
                 ZeroResult)
    ELSE Outcome("", FALSE, payload,
                 <<Request(c.apiEndpoint, Marshal(payload, {payload.BiometricThreshold}), net)>>,
                 Unmarshal(net.body))

\* the checks of scan in their order, each ending the call; m1 to m4 are the
\* classified media arguments (NotSupplied for an empty one)
checked(c, documentPrimary, biometricVideo, biometricVideoPasscode, m1, m2, m3, m4, net) ==
    IF documentPrimary = <<>>
    THEN Outcome("primary document image required", FALSE, coreRequest(c), <<>>, ZeroResult)
    ELSE IF m1.kind = "panic" THEN Panic(coreRequest(c))
    ELSE IF m1.kind = "invalid"
    THEN Outcome("invalid primary document image, file not found or malformed URL",
                 FALSE, coreRequest(c), <<>>, ZeroResult)
    ELSE IF m2.kind = "panic"
    THEN Panic(withMedia(coreRequest(c), m1, NotSupplied, NotSupplied, NotSupplied))
    ELSE IF m2.kind = "invalid"
    THEN Outcome("invalid secondary document image, file not found or malformed URL", FALSE,
                 withMedia(coreRequest(c), m1, NotSupplied, NotSupplied, NotSupplied),
                 <<>>, ZeroResult)
    ELSE IF m3.kind = "panic"
    THEN Panic(withMedia(coreRequest(c), m1, m2, NotSupplied, NotSupplied))
    ELSE IF m3.kind = "invalid"
    THEN Outcome("invalid face image, file not found or malformed URL", FALSE,
                 withMedia(coreRequest(c), m1, m2, NotSupplied, NotSupplied), <<>>, ZeroResult)
    ELSE IF m4.kind = "panic" THEN Panic(withMedia(coreRequest(c), m1, m2, m3, NotSupplied))
    ELSE IF m4.kind = "invalid"
    THEN Outcome("invalid face video, file not found or malformed URL", FALSE,
                 withMedia(coreRequest(c), m1, m2, m3, NotSupplied), <<>>, ZeroResult)
    ELSE IF biometricVideo = <<>> THEN post(c, withMedia(coreRequest(c), m1, m2, m3, m4), net)
    ELSE IF ~MatchPasscode(biometricVideoPasscode)
    THEN Outcome("please provide a 4 digit passcode for video biometric verification", FALSE,
                 withMedia(coreRequest(c), m1, m2, m3, m4), <<>>, ZeroResult)
    ELSE post(c, [withMedia(coreRequest(c), m1, m2, m3, m4)
                      EXCEPT !.Passcode = biometricVideoPasscode], net)

\* an argument is classified only when it is not empty; files maps each
\* argument to what the file system holds under its name
classify(s, files) == IF s # <<>> THEN classifyMedia(s, files[s]) ELSE NotSupplied

scan(c, documentPrimary, documentSecondary, biometricPhoto, biometricVideo, biometricVideoPasscode, files, net) ==
    checked(c, documentPrimary, biometricVideo, biometricVideoPasscode,
            classify(documentPrimary, files), classify(documentSecondary, files),
            classify(biometricPhoto, files), classify(biometricVideo, files), net)

\* what scan1Side and scan2Sides do with scan's return: an error gives the
\* zero result; a decoded Error with a message becomes the call's error
\* the error branch returning the zero result
decodeScan_DropsResult(s) ==
    IF s.panicked \/ s.err # "" THEN s
    ELSE IF s.result.error.present /\ s.result.error.message # ""
    THEN [s EXCEPT !.err = CodeMessage(s.result.error), !.result = ZeroResult]
    ELSE s

decodeScan(s) ==
    IF s.panicked \/ s.err # "" THEN s
    ELSE IF s.result.error.present /\ s.result.error.message # ""
    THEN [s EXCEPT !.err = CodeMessage(s.result.error)]
    ELSE s

scan1Side(c, documentPrimary, biometricPhoto, biometricVideo, biometricVideoPasscode, files, net) ==
    decodeScan(scan(c, documentPrimary, <<>>, biometricPhoto, biometricVideo,
                    biometricVideoPasscode, files, net))

\* scan2Sides without its test of the secondary document
scan2Sides_NoSecondaryTest(c, documentPrimary, documentSecondary, biometricPhoto, biometricVideo, biometricVideoPasscode, files, net) ==
    decodeScan(scan(c, documentPrimary, documentSecondary, biometricPhoto,
                    biometricVideo, biometricVideoPasscode, files, net))

scan2Sides(c, documentPrimary, documentSecondary, biometricPhoto, biometricVideo, biometricVideoPasscode, files, net) ==
    IF documentSecondary = <<>>
    THEN Outcome("secondary document image required", FALSE, NoPayload, <<>>, ZeroResult)
    ELSE decodeScan(scan(c, documentPrimary, documentSecondary, biometricPhoto,
                         biometricVideo, biometricVideoPasscode, files, net))


(***************************************************************************)
(* docu_pass.go: configuration                                             *)
(***************************************************************************)
defaultDocuPassConfig ==
    [ amlCheck |-> FALSE,
      amlDatabase |-> "",
      amlStrictMatch |-> FALSE,
      authenticateMinScore |-> F(0),
      authenticateModule |-> "2",
      biometric |-> 0,
      biometricThreshold |-> F(400),
      callbackUrl |-> <<>>,
      contractFormat |-> "",
      contractGenerate |-> "",
      contractPrefillData |-> EmptyMap,
      contractSign |-> "",
      cropDocument |-> FALSE,
      customHtmlUrl |-> "",
      customID |-> "",
      documentCountry |-> "",
      documentRegion |-> "",
      documentType |-> "",
      dualSideCheck |-> FALSE,
      failRedir |-> <<>>,
      language |-> "",
      logo |-> "",
      maxAttempt |-> 1,
      noBranding |-> FALSE,
      phoneVerification |-> FALSE,
      qrBgColor |-> <<>>,
      qrColor |-> <<>>,
      qrMargin |-> 1,
      qrSize |-> 5,
      returnDocumentImage |-> TRUE,
      returnFaceImage |-> TRUE,
      returnType |-> 1,
      reusable |-> FALSE,
      smsContractLink |-> "",
      smsVerificationLink |-> "",
      successRedir |-> <<>>,
      vaultSave |-> TRUE,
      verifyAddress |-> "",
      verifyAge |-> <<>>,
      verifyDOB |-> <<>>,
      verifyDocumentNo |-> "",
      verifyExpiry |-> FALSE,
      verifyName |-> "",
      verifyPhone |-> "",
      verifyPostcode |-> "",
      welcomeMessage |-> "" ]

\* NewDocuPassAPI with a non-empty key and company name
NewDocuPassAPI(apiKey, companyName, region) ==
    [ apiKey |-> apiKey,
      apiEndpoint |-> endpointFromRegion(region, "docupass"),
      companyName |-> companyName,
      config |-> defaultDocuPassConfig ]

DocuPassAPI_ResetConfig(d) == [d EXCEPT !.config = defaultDocuPassConfig]

DocuPassAPI_SetMaxAttempt(d, maxAttempt) ==
    IF maxAttempt < 1 \/ maxAttempt > 10
    THEN Fail(d, "invalid max attempt, please specify integer between 1 to 10")
    ELSE Ok([d EXCEPT !.config.maxAttempt = maxAttempt])

DocuPassAPI_SetCustomID(d, customID) == [d EXCEPT !.config.customID = customID]

DocuPassAPI_SetWelcomeMessage(d, welcomeMessage) ==
    [d EXCEPT !.config.welcomeMessage = welcomeMessage]

DocuPassAPI_SetLogo(d, url) == [d EXCEPT !.config.logo = url]

DocuPassAPI_HideBrandingLogo(d, hide) == [d EXCEPT !.config.noBranding = hide]

DocuPassAPI_SetCustomHTML(d, url) == [d EXCEPT !.config.customHtmlUrl = url]

DocuPassAPI_SetLanguage(d, lang) == [d EXCEPT !.config.language = lang]

\* the three tests of SetCallbackUrl on the parsed URL; ip is net.ParseIP of
\* uri.Host as the URL carries it (with its port and brackets)
testCallback(d, callback, uri, ip, hasIsPrivate) ==
    IF uri.err THEN Fail(d, "invalid URL format")
    ELSE IF \/ ip # <<>> /\ isPrivateIP(ip, hasIsPrivate)
            \/ ToLower(uri.Host) = <<"l", "o", "c", "a", "l", "h", "o", "s", "t">>
    THEN Fail(d, "invalid URL, the host does not appear to be a remote host")
    ELSE IF uri.Scheme # <<"h", "t", "t", "p">> /\ uri.Scheme # <<"h", "t", "t", "p", "s">>
    THEN Fail(d, "invalid URL, only http and https protocols are allowed")
    ELSE Ok([d EXCEPT !.config.callbackUrl = callback])

\* hasIsPrivate is whether net.IP has the IsPrivate method isPrivateIP looks up
DocuPassAPI_SetCallbackUrl(d, callback, hasIsPrivate) ==
    testCallback(d, callback, ParseRequestURI(callback),
                 ParseIP(ParseRequestURI(callback).Host), hasIsPrivate)

DocuPassAPI_SetRedirectURL(d, successUrl, failUrl) ==
    IF ParseRequestURI(successUrl).err /\ successUrl # <<>>
    THEN Fail(d, "invalid URL format for success URL")
    ELSE IF ParseRequestURI(failUrl).err /\ failUrl # <<>>
    THEN Fail(d, "invalid URL format for fail URL")
    ELSE Ok([d EXCEPT !.config.successRedir = successUrl, !.config.failRedir = failUrl])

DocuPassAPI_EnableAuthentication(d, enabled, module, minScore) ==
    IF ~enabled THEN Ok([d EXCEPT !.config.authenticateMinScore = F(0)])
    ELSE IF FLt(minScore, F(0)) \/ FGt(minScore, F(1000))
    THEN Fail(d, "invalid minimum score; please specify float between 0 to 1")
    ELSE IF module # "1" /\ module # "2" /\ module # "quick"
    THEN Fail(d, "invalid authentication module; \"1\", \"2\" or \"quick\" accepted")
    ELSE Ok([d EXCEPT !.config.authenticateModule = module,
                      !.config.authenticateMinScore = minScore])

DocuPassAPI_EnableFaceVerification(d, enabled, verificationType, threshold) ==
    IF ~enabled THEN Ok([d EXCEPT !.config.biometric = 0])
    ELSE IF FLt(threshold, F(0)) \/ FGt(threshold, F(1000))
    THEN Fail(d, "invalid threshold; please specify float between 0 to 1")
    ELSE IF verificationType # 1 /\ verificationType # 2
    THEN Fail(d, "invalid verification type; use 1 for photo verification, 2 for video verification")
    ELSE Ok([d EXCEPT !.config.biometric = verificationType,
                      !.config.biometricThreshold = threshold])

DocuPassAPI_SetReusable(d, enabled) == [d EXCEPT !.config.reusable = enabled]

DocuPassAPI_SetCallbackImage(d, sendDocument, sendFace, format) ==
    [d EXCEPT !.config.returnDocumentImage = sendDocument,
              !.config.returnFaceImage = sendFace,
              !.config.returnType = IF format = 0 THEN 0 ELSE 1]

DocuPassAPI_SetQRCodeFormat(d, fore, back, size, margin) ==
    IF ~IsHexColor(fore) THEN Fail(d, "invalid foreground color HEX code")
    ELSE IF ~IsHexColor(back) THEN Fail(d, "invalid background color HEX code")
    ELSE IF size < 1 \/ size > 50 THEN Fail(d, "invalid image size; must be between 1 and 50")
    ELSE IF margin < 1 \/ margin > 50 THEN Fail(d, "invalid margin; must be between 1 and 50")
    ELSE Ok([d EXCEPT !.config.qrColor = fore,
                      !.config.qrBgColor = back,
                      !.config.qrSize = size,
                      !.config.qrMargin = margin])

DocuPassAPI_EnableDualSideCheck(d, enabled) == [d EXCEPT !.config.dualSideCheck = enabled]

DocuPassAPI_EnableAMLCheck(d, enabled) == [d EXCEPT !.config.amlCheck = enabled]

DocuPassAPI_SetAMLDatabase(d, databases) == [d EXCEPT !.config.amlDatabase = databases]

DocuPassAPI_EnableAMLStrictMatch(d, enabled) == [d EXCEPT !.config.amlStrictMatch = enabled]

DocuPassAPI_EnablePhoneVerification(d, enabled) ==
    [d EXCEPT !.config.phoneVerification = enabled]

DocuPassAPI_SMSVerificationLink(d, number) ==
    [d EXCEPT !.config.smsVerificationLink = number]

DocuPassAPI_SMSContractLink(d, number) == [d EXCEPT !.config.smsContractLink = number]

DocuPassAPI_VerifyPhone(d, number) == [d EXCEPT !.config.verifyPhone = number]

DocuPassAPI_VerifyExpiry(d, verify) == [d EXCEPT !.config.verifyExpiry = verify]

DocuPassAPI_VerifyDocumentNumber(d, number) == [d EXCEPT !.config.verifyDocumentNo = number]

DocuPassAPI_VerifyName(d, name) == [d EXCEPT !.config.verifyName = name]

DocuPassAPI_VerifyDOB(d, date) ==
    IF ~ParseDateOK(date) /\ date # <<>>
    THEN Fail(d, "invalid birthday format (YYYY/MM/DD)")
    ELSE Ok([d EXCEPT !.config.verifyDOB = date])

DocuPassAPI_VerifyAge(d, ageRange) ==
    IF ~MatchAgeRange(ageRange) /\ ageRange # <<>>
    THEN Fail(d, "invalid age range format (minAge-maxAge)")
    ELSE Ok([d EXCEPT !.config.verifyAge = ageRange])

DocuPassAPI_VerifyAddress(d, address) == [d EXCEPT !.config.verifyAddress = address]

DocuPassAPI_VerifyPostcode(d, postcode) == [d EXCEPT !.config.verifyPostcode = postcode]

DocuPassAPI_RestrictCountry(d, countryCodes) ==
    [d EXCEPT !.config.documentCountry = countryCodes]

DocuPassAPI_RestrictState(d, states) == [d EXCEPT !.config.documentRegion = states]

DocuPassAPI_RestrictType(d, documentType) == [d EXCEPT !.config.documentType = documentType]

DocuPassAPI_EnableVault(d, enabled) == [d EXCEPT !.config.vaultSave = enabled]

DocuPassAPI_GenerateContract(d, templateID, format, prefillData) ==
    IF templateID = "" THEN Fail(d, "invalid template ID")
    ELSE IF format # "PDF" /\ format # "DOCX" /\ format # "HTML"
    THEN Fail(d, "invalid format; must be \"PDF\", \"DOCX\", or \"HTML\"")
    ELSE Ok([d EXCEPT !.config.contractGenerate = templateID,
                      !.config.contractSign = "",
                      !.config.contractFormat = format,
                      !.config.contractPrefillData = prefillData])

\* SignContract without its assignment to contractGenerate
DocuPassAPI_SignContract_KeepsGenerate(d, templateID, format, prefillData) ==
    IF templateID = "" THEN Fail(d, "invalid template ID")
    ELSE IF format # "PDF" /\ format # "DOCX" /\ format # "HTML"
    THEN Fail(d, "invalid format; must be \"PDF\", \"DOCX\", or \"HTML\"")
    ELSE Ok([d EXCEPT !.config.contractSign = templateID,
                      !.config.contractFormat = format,
                      !.config.contractPrefillData = prefillData])

DocuPassAPI_SignContract(d, templateID, format, prefillData) ==
    IF templateID = "" THEN Fail(d, "invalid template ID")
    ELSE IF format # "PDF" /\ format # "DOCX" /\ format # "HTML"
    THEN Fail(d, "invalid format; must be \"PDF\", \"DOCX\", or \"HTML\"")
    ELSE Ok([d EXCEPT !.config.contractGenerate = "",
                      !.config.contractSign = templateID,
                      !.config.contractFormat = format,
                      !.config.contractPrefillData = prefillData])


(***************************************************************************)
(* docu_pass.go: the actions                                               *)
(***************************************************************************)
requestFromConfig(d) ==
    [ ApiKey |-> d.apiKey,
      CompanyName |-> d.companyName,
      AMLCheck |-> d.config.amlCheck,
      AMLDatabase |-> d.config.amlDatabase,
      AMLStrictMatch |-> d.config.amlStrictMatch,
      AuthenticateMinScore |-> d.config.authenticateMinScore,
      AuthenticateModule |-> d.config.authenticateModule,
      Biometric |-> d.config.biometric,
      BiometricThreshold |-> d.config.biometricThreshold,
      CallbackUrl |-> d.config.callbackUrl,
      ContractFormat |-> d.config.contractFormat,
      ContractGenerate |-> d.config.contractGenerate,
      ContractPrefillData |-> d.config.contractPrefillData,
      ContractSign |-> d.config.contractSign,
      CropDocument |-> d.config.cropDocument,
      CustomHtmlUrl |-> d.config.customHtmlUrl,
      CustomID |-> d.config.customID,
      DocumentCountry |-> d.config.documentCountry,
      DocumentRegion |-> d.config.documentRegion,
      DocumentType |-> d.config.documentType,
      DualSideCheck |-> d.config.dualSideCheck,
      FailRedir |-> d.config.failRedir,
      Language |-> d.config.language,
      Logo |-> d.config.logo,
      MaxAttempt |-> d.config.maxAttempt,
      NoBranding |-> d.config.noBranding,
      PhoneVerification |-> d.config.phoneVerification,
      QRBgColor |-> d.config.qrBgColor,
      QRColor |-> d.config.qrColor,
      QRMargin |-> d.config.qrMargin,
      QRSize |-> d.config.qrSize,
      ReturnDocumentImage |-> d.config.returnDocumentImage,
      ReturnFaceImage |-> d.config.returnFaceImage,
      ReturnType |-> d.config.returnType,
      Reusable |-> d.config.reusable,
      SMSContractLink |-> d.config.smsContractLink,
      SMSVerificationLink |-> d.config.smsVerificationLink,
      SuccessRedir |-> d.config.successRedir,
      TemplateID |-> "",
      Type |-> 0,
      VaultSave |-> d.config.vaultSave,
      VerifyAddress |-> d.config.verifyAddress,
      VerifyAge |-> d.config.verifyAge,
      VerifyDOB |-> d.config.verifyDOB,
      VerifyDocumentNo |-> d.config.verifyDocumentNo,
      VerifyExpiry |-> d.config.verifyExpiry,
      VerifyName |-> d.config.verifyName,
      VerifyPhone |-> d.config.verifyPhone,
      VerifyPostcode |-> d.config.verifyPostcode,
      WelcomeMessage |-> d.config.welcomeMessage,
      Client |-> "go-sdk" ]

\* the post-and-decode tail that create and CreateSignature share
docuPassPost(d, action, payload, net) ==
    LET req == Request(d.apiEndpoint \o "/" \o action,
                       Marshal(payload, {payload.AuthenticateMinScore,
                                         payload.BiometricThreshold}), net)
        result == Unmarshal(net.body)
    IN IF ~net.ok THEN Outcome(ConnectError, FALSE, payload, <<req>>, ZeroResult)
       ELSE IF result.error.present /\ result.error.message # ""
       THEN Outcome(CodeMessage(result.error), FALSE, payload, <<req>>, result)
       ELSE Outcome("", FALSE, payload, <<req>>, result)

create(d, mode, net) ==
    docuPassPost(d, "create", [requestFromConfig(d) EXCEPT !.Type = mode], net)

DocuPassAPI_CreateSignature(d, templateID, format, prefillData, net) ==
    docuPassPost(d, "sign",
                 [requestFromConfig(d) EXCEPT !.TemplateID = templateID,
                                              !.ContractFormat = format,
                                              !.ContractPrefillData = prefillData],
                 net)

\* Validate returns result.Success and never looks at result.Error; the
\* stand-in data of the body is what Success decodes from
DocuPassAPI_Validate(d, reference, hash, net) ==
    LET payload == [apikey |-> d.apiKey, reference |-> reference, hash |-> hash]
        req == Request(d.apiEndpoint \o "/validate", Marshal(payload, {}), net)
    IN IF ~net.ok THEN Outcome(ConnectError, FALSE, payload, <<req>>, ZeroResult)
       ELSE Outcome("", FALSE, payload, <<req>>, Unmarshal(net.body))


(***************************************************************************)
(* The AML facade                                                          *)
(***************************************************************************)
\* NewAMLAPI with a non-empty key: the two settings start as Go's zero value
NewAMLAPI(apiKey, region) ==
    [ apiKey |-> apiKey,
      apiEndpoint |-> endpointFromRegion(region, "aml"),
      amlDatabases |-> "",
      amlEntityType |-> "" ]

AMLAPI_SetAMLDatabase(a, databases) == [a EXCEPT !.amlDatabases = databases]

AMLAPI_SetEntityType(a, entityType) ==
    IF entityType # "person" /\ entityType # "legalentity" /\ entityType # ""
    THEN Fail(a, "entity type should be either empty, \"person\" or \"legalentity\"")
    ELSE Ok([a EXCEPT !.amlEntityType = entityType])

\* AMLAPI.callAPI: AMLResponse has no Error field, and nil is returned
\* whatever the body holds
amlCallAPI(a, request, net) ==
    LET payload == [request EXCEPT !.ApiKey = a.apiKey,
                                   !.Database = a.amlDatabases,
                                   !.Entity = a.amlEntityType,
                                   !.Client = "go-sdk"]
        req == Request(a.apiEndpoint, Marshal(payload, {}), net)
    IN IF ~net.ok THEN Outcome(ConnectError, FALSE, payload, <<req>>, ZeroResult)
       ELSE Outcome("", FALSE, payload, <<req>>,
                    Body(NoError, IF net.body.valid THEN net.body.data ELSE ""))

amlRequest(name, documentNumber, country, dob) ==
    [ApiKey |-> "", Database |-> "", Entity |-> "", Client |-> "", Name |-> name,
     DocumentNumber |-> documentNumber, Country |-> country, DOB |-> dob]

AMLAPI_SearchByName(a, name, country, dob, net) ==
    amlCallAPI(a, amlRequest(name, "", country, dob), net)

AMLAPI_SearchByIDNumber(a, documentNumber, country, dob, net) ==
    amlCallAPI(a, amlRequest("", documentNumber, country, dob), net)

(***************************************************************************)
(* vault.go.  A VaultRequest is a Go map: a function from keys to values.  *)
(* A map is passed by reference, so an action also hands back the map its  *)
(* caller passed, as the call left it.                                     *)
(***************************************************************************)
NewVaultAPI(apiKey, region) ==
    [apiKey |-> apiKey, apiEndpoint |-> endpointFromRegion(region, "vault")]

\* m[k] = v
MapSet(m, k, v) == [x \in DOMAIN m \cup {k} |-> IF x = k THEN v ELSE m[x]]

\* fmt.Errorf("%d: %s", code, message) on the decoded map, where a JSON
\* number is a float64 and a missing member is nil
vaultCodeMessage(error) ==
    "%!d(float64=" \o ToString(error.code) \o "): "
        \o (IF error.hasMessage THEN error.message ELSE "%!s(<nil>)")

\* an action's outcome together with the caller's map after the call
WithData(outcome, data) == [outcome |-> outcome, data |-> data]

\* VaultAPI.callAPI: writes apikey and client into the map it was given; the
\* type assertion on "error" panics unless it is an object; a missing
\* "message" is nil, which differs from ""
vaultCallAPI(v, action, payload, net) ==
    LET p == MapSet(MapSet(payload, "apikey", v.apiKey), "client", "go-sdk")
        floats == IF "threshold" \in DOMAIN p THEN {p["threshold"]} ELSE {}
        req == Request(v.apiEndpoint \o "/" \o action, Marshal(p, floats), net)
        e == net.body.error
        result == Unmarshal(net.body)
    IN IF ~net.ok THEN WithData(Outcome(ConnectError, FALSE, p, <<req>>, ZeroResult), p)
       ELSE IF ~net.body.valid \/ e.kind = "absent"
       THEN WithData(Outcome("", FALSE, p, <<req>>, result), p)
       ELSE IF e.kind # "object"
       THEN WithData(Outcome("", TRUE, p, <<req>>, ZeroResult), p)
       ELSE IF ~(e.hasMessage /\ e.message = "")
       THEN WithData(Outcome(vaultCodeMessage(e), FALSE, p, <<req>>, result), p)
       ELSE WithData(Outcome("", FALSE, p, <<req>>, result), p)

\* a validation error of an action: nothing built, nothing sent
Invalid(err, data) == WithData(Outcome(err, FALSE, NoPayload, <<>>, ZeroResult), data)

NoData == <<>>

VaultAPI_Get(v, vault_id, net) ==
    IF vault_id = "" THEN Invalid("vault entry ID required", NoData)
    ELSE vaultCallAPI(v, "get", [id |-> vault_id], net)

VaultAPI_List(v, filter, orderby, sort, limit, offset, net) ==
    IF Len(filter) > 5
    THEN Invalid("filter should be an array containing maximum of 5 filter statements", NoData)
    ELSE vaultCallAPI(v, "list",
                      [filter |-> filter, orderby |-> orderby, sort |-> sort,
                       limit |-> limit, offset |-> offset], net)

\* data["id"] = vault_id is written into the caller's map
VaultAPI_Update(v, vault_id, data, net) ==
    IF vault_id = "" THEN Invalid("vault entry ID required", data)
    ELSE IF DOMAIN data = {} THEN Invalid("data required", data)
    ELSE vaultCallAPI(v, "update", MapSet(data, "id", vault_id), net)

\* Delete with the request made before the ID is looked at
VaultAPI_Delete_PostsFirst(v, vault_id, net) ==
    IF vault_id = ""
    THEN WithData(Outcome("vault entry ID required", FALSE, [id |-> vault_id],
                          vaultCallAPI(v, "delete", [id |-> vault_id], net).outcome.sent,
                          ZeroResult), NoData)
    ELSE vaultCallAPI(v, "delete", [id |-> vault_id], net)

VaultAPI_Delete(v, vault_id, net) ==
    IF vault_id = "" THEN Invalid("vault entry ID required", NoData)
    ELSE vaultCallAPI(v, "delete", [id |-> vault_id], net)

\* the image of AddImage and SearchFace goes through the same three tests as
\* a scan's media arguments; m is the classified image
vaultImage(payload, m, action, v, net) ==
    IF m.kind = "panic" THEN WithData(Panic(payload), NoData)
    ELSE IF m.kind = "url"
    THEN vaultCallAPI(v, action, MapSet(payload, "imageurl", m.url), net)
    ELSE IF m.kind \in {"file", "inline"}
    THEN vaultCallAPI(v, action, MapSet(payload, "image", m.base64), net)
    ELSE WithData(Outcome("invalid image, file not found or malformed URL", FALSE,
                          payload, <<>>, ZeroResult), NoData)

VaultAPI_AddImage(v, vault_id, image, image_type, f, net) ==
    IF vault_id = "" THEN Invalid("vault entry ID required", NoData)
    ELSE IF image_type # 0 /\ image_type # 1
    THEN Invalid("invalid image type, 0 or 1 accepted", NoData)
    ELSE vaultImage([id |-> vault_id, type |-> image_type], classifyMedia(image, f),
                    "addimage", v, net)

VaultAPI_DeleteImage(v, vault_id, image_id, net) ==
    IF vault_id = "" THEN Invalid("vault entry ID required", NoData)
    ELSE IF image_id = "" THEN Invalid("image ID required", NoData)
    ELSE vaultCallAPI(v, "deleteimage", [id |-> vault_id, imageid |-> image_id], net)

VaultAPI_SearchFace(v, image, maxEntry, threshold, f, net) ==
    vaultImage([maxentry |-> maxEntry, threshold |-> threshold], classifyMedia(image, f),
               "searchface", v, net)

VaultAPI_TrainFace(v, net) == vaultCallAPI(v, "train", <<>>, net)

VaultAPI_TrainingStatus(v, net) == vaultCallAPI(v, "trainstatus", <<>>, net)

(***************************************************************************)
(* vault.go, lines 1 to 285: the text with typed requests and responses.   *)
(* A request is a struct or a map, which json.Marshal writes as an object, *)
(* or the empty string slice, which it writes as "[]".                     *)
(***************************************************************************)
Object(members) == [json |-> "object", members |-> members]

StringSlice == [json |-> "array", members |-> <<>>]

\* callAPI(action, request, result): the request goes through json.Marshal
\* and json.Unmarshal into a nil map, which stays nil unless the JSON is an
\* object; writing "apikey" into a nil map panics.  The answer is decoded
\* into the typed response and nil is returned whatever it holds.
typedCallAPI(v, action, request, data, net) ==
    LET floats == IF "threshold" \in DOMAIN request.members
                  THEN {request.members["threshold"]} ELSE {}
        p == MapSet(MapSet(request.members, "apikey", v.apiKey), "client", "go-sdk")
        req == Request(v.apiEndpoint \o "/" \o action, Marshal(p, {}), net)
    IN IF request.json # "object" \/ Marshal(request.members, floats).nil
       THEN WithData(Outcome("", TRUE, NoPayload, <<>>, ZeroResult), data)
       ELSE IF ~net.ok THEN WithData(Outcome(ConnectError, FALSE, p, <<req>>, ZeroResult), data)
       ELSE WithData(Outcome("", FALSE, p, <<req>>, Unmarshal(net.body)), data)

Typed_Get(v, vault_id, net) ==
    IF vault_id = "" THEN Invalid("vault entry ID required", NoData)
    ELSE typedCallAPI(v, "get", Object([id |-> vault_id]), NoData, net)

Typed_List(v, filter, orderby, sort, limit, offset, net) ==
    IF Len(filter) > 5
    THEN Invalid("filter should be an array containing maximum of 5 filter statements", NoData)
    ELSE typedCallAPI(v, "list",
                      Object([filter |-> filter, orderby |-> orderby, sort |-> sort,
                              limit |-> limit, offset |-> offset]), NoData, net)

\* Update(data VaultData): the struct is passed by value
Typed_Update(v, data, net) ==
    IF data["id"] = "" THEN Invalid("vault entry ID required", data)
    ELSE typedCallAPI(v, "update", Object(data), data, net)

Typed_Delete(v, vault_id, net) ==
    IF vault_id = "" THEN Invalid("vault entry ID required", NoData)
    ELSE typedCallAPI(v, "delete", Object([id |-> vault_id]), NoData, net)

\* m is the classified image, invalid the error of an image that is none of
\* URL, file and inline data
typedImage(payload, m, action, invalid, v, net) ==
    IF m.kind = "panic" THEN WithData(Panic(payload), NoData)
    ELSE IF m.kind = "url"
    THEN typedCallAPI(v, action, Object(MapSet(payload, "imageurl", m.url)), NoData, net)
    ELSE IF m.kind \in {"file", "inline"}
    THEN typedCallAPI(v, action, Object(MapSet(payload, "image", m.base64)), NoData, net)
    ELSE WithData(Outcome(invalid, FALSE, payload, <<>>, ZeroResult), NoData)

Typed_AddImage(v, vault_id, image, image_type, f, net) ==
    IF vault_id = "" THEN Invalid("vault entry ID required", NoData)
    ELSE IF image_type # 0 /\ image_type # 1
    THEN Invalid("invalid image type, 0 or 1 accepted", NoData)
    ELSE typedImage([id |-> vault_id, type |-> image_type], classifyMedia(image, f), "addimage",
                    "invalid image, file not found, or malformed URL", v, net)

Typed_DeleteImage(v, vault_id, image_id, net) ==
    IF vault_id = "" THEN Invalid("vault entry ID required", NoData)
    ELSE IF image_id = "" THEN Invalid("image ID required", NoData)
    ELSE typedCallAPI(v, "deleteimage", Object([id |-> vault_id, imageid |-> image_id]),
                      NoData, net)

Typed_SearchFace(v, image, maxEntry, threshold, f, net) ==
    typedImage([maxentry |-> maxEntry, threshold |-> threshold], classifyMedia(image, f),
               "searchface", "invalid image, file not found or malformed URL", v, net)

\* TrainFace and TrainingStatus pass []string{} as the request
Typed_TrainFace(v, net) == typedCallAPI(v, "train", StringSlice, NoData, net)

Typed_TrainingStatus(v, net) == typedCallAPI(v, "trainstatus", StringSlice, NoData, net)


(***************************************************************************)
(* The inputs the calls are driven with                                    *)
(***************************************************************************)
\* "https://example.com/hook"
URL_Public == <<"h","t","t","p","s",":","/","/","e","x","a","m","p","l","e",".","c","o","m","/","h","o","o","k">>

\* "http://127.0.0.1/hook"
URL_Loopback == <<"h","t","t","p",":","/","/","1","2","7",".","0",".","0",".","1","/","h","o","o","k">>

\* "http://127.0.0.1:8080/hook"
URL_LoopbackPort == <<"h","t","t","p",":","/","/","1","2","7",".","0",".","0",".","1",":","8","0","8","0","/","h","o","o","k">>

\* "http://[::1]/hook"
URL_LoopbackV6 == <<"h","t","t","p",":","/","/","[",":",":","1","]","/","h","o","o","k">>

\* "http://LocalHost/hook"
URL_Localhost == <<"h","t","t","p",":","/","/","L","o","c","a","l","H","o","s","t","/","h","o","o","k">>

\* "http://localhost:8080/hook"
URL_LocalhostPort == <<"h","t","t","p",":","/","/","l","o","c","a","l","h","o","s","t",":","8","0","8","0","/","h","o","o","k">>

\* "http://10.0.0.1/hook"
URL_Private == <<"h","t","t","p",":","/","/","1","0",".","0",".","0",".","1","/","h","o","o","k">>

\* "http://169.254.1.1/hook"
URL_LinkLocal == <<"h","t","t","p",":","/","/","1","6","9",".","2","5","4",".","1",".","1","/","h","o","o","k">>

\* "ftp://example.com/hook"
URL_Ftp == <<"f","t","p",":","/","/","e","x","a","m","p","l","e",".","c","o","m","/","h","o","o","k">>

\* "/hook"
URL_PathOnly == <<"/","h","o","o","k">>

\* "example.com/hook"
URL_NoScheme == <<"e","x","a","m","p","l","e",".","c","o","m","/","h","o","o","k">>

CallbackURLs ==
    {URL_Public, URL_Loopback, URL_LoopbackPort, URL_LoopbackV6, URL_Localhost,
     URL_LocalhostPort, URL_Private, URL_LinkLocal, URL_Ftp, URL_PathOnly, URL_NoScheme}

\* "https://example.com/id.jpg"
Media_URL == <<"h","t","t","p","s",":","/","/","e","x","a","m","p","l","e",".","c","o","m","/","i","d",".","j","p","g">>

\* "https://example.com/" followed by 101 times "a": a URL longer than 100 bytes
Media_LongURL == <<"h","t","t","p","s",":","/","/","e","x","a","m","p","l","e",".","c","o","m","/">> \o Repeat("a", InlineMinLen + 1)

\* "/tmp/id.jpg"
Media_AbsPath == <<"/","t","m","p","/","i","d",".","j","p","g">>

\* "id.jpg"
Media_RelPath == <<"i","d",".","j","p","g">>

\* "/9j/" followed by 100 times "A": base64 of a JPEG, which begins with "/"
Media_Base64Slash == <<"/","9","j","/">> \o Repeat("A", InlineMinLen)

\* 101 times "A": base64 text just over the length test
Media_Base64 == Repeat("A", InlineMinLen + 1)

\* 100 times "A": exactly at the length test
Media_Short == Repeat("A", InlineMinLen)

\* "data:abc"
Media_Opaque == <<"d","a","t","a",":","a","b","c">>

MediaStrings ==
    {Media_URL, Media_LongURL, Media_AbsPath, Media_RelPath, Media_Base64Slash,
     Media_Base64, Media_Short, Media_Opaque}

\* the bytes of the one non-empty file content of the model
FileBytes == <<255, 216, 255, 224>>

\* what a name can be on disk
FileStates ==
    {Absent, StatFails, Directory, RegularFile(FileBytes), RegularFile(<<>>), UnreadableFile(FileBytes)}

\* "1234"
Passcode_OK == <<"1","2","3","4">>

\* "12ab"
Passcode_Bad == <<"1","2","a","b">>

\* "1990/01/31"
DOB_OK == <<"1","9","9","0","/","0","1","/","3","1">>

\* "1990/02/30"
DOB_BadDay == <<"1","9","9","0","/","0","2","/","3","0">>

\* "18-120"
Age_OK == <<"1","8","-","1","2","0">>

\* "eighteen-120"
Age_Bad == <<"e","i","g","h","t","e","e","n","-","1","2","0">>

\* "18-"
Age_NoMax == <<"1","8","-">>

\* "1-2-3"
Age_Three == <<"1","-","2","-","3">>

AgeRanges == {Age_OK, Age_Bad, Age_NoMax, Age_Three, <<>>}

\* "ff0000"
Color_Red == <<"f","f","0","0","0","0">>

\* "ff00zz"
Color_Bad == <<"f","f","0","0","z","z">>


\* a response without an "error" member, and one with an API error
ReplyOK == Reply(RawBody(TRUE, ErrAbsent, "ok"))

ReplyError == Reply(RawBody(TRUE, ErrObject(14, TRUE, "mismatch"), "partial"))

\* an error object with a code and an empty message
ReplyNoMessage == Reply(RawBody(TRUE, ErrObject(7, TRUE, ""), "coded"))

\* an "error" member that is a string
ReplyErrorText == Reply(RawBody(TRUE, ErrNotObject, "text"))

NetOutcomes == {ConnFail, ReplyOK, ReplyError, ReplyNoMessage, ReplyErrorText}

\* the arguments a call draws from: a configuration session makes several
\* calls in a row with few arguments each, a media session one call at a time
\* with every media string and every answer of the transport
Media == IF session = "media" THEN MediaStrings ELSE {Media_URL}

MediaOrEmpty == IF session = "media" THEN MediaStrings \cup {<<>>} ELSE {Media_URL}

\* the media of the three- and four-argument scans
MediaFew == IF session = "media" THEN {Media_URL, Media_RelPath, Media_Base64, <<>>} ELSE {Media_URL}

Passcodes == IF session = "media" THEN {<<>>, Passcode_OK, Passcode_Bad} ELSE {Passcode_OK}

Nets == NetOutcomes

Strs == {"", "x"}

Thresholds == {F(0), F(500), F(1000), F(1001), NaN}

Prefill == [name |-> "Ann"]

\* enabled, module, minimum score
AuthArgs ==
    {<<FALSE, "2", F(500)>>, <<TRUE, "2", F(-1)>>, <<TRUE, "2", F(0)>>, <<TRUE, "quick", F(1000)>>,
     <<TRUE, "1", F(1001)>>, <<TRUE, "bad", F(500)>>, <<TRUE, "1", NaN>>}

\* enabled, verification type, threshold
FaceArgs ==
    {<<FALSE, 2, F(500)>>, <<TRUE, 2, F(-1)>>, <<TRUE, 2, F(0)>>, <<TRUE, 1, F(1000)>>,
     <<TRUE, 1, F(1001)>>, <<TRUE, 3, F(500)>>, <<TRUE, 1, NaN>>}

\* foreground, background, size, margin
QRArgs ==
    {<<Color_Red, Color_Red, 5, 5>>, <<Color_Bad, Color_Red, 5, 5>>,
     <<Color_Red, Color_Bad, 5, 5>>, <<Color_Red, Color_Red, 0, 5>>,
     <<Color_Red, Color_Red, 51, 5>>, <<Color_Red, Color_Red, 1, 0>>,
     <<Color_Red, Color_Red, 50, 51>>, <<Color_Red, Color_Red, 1, 50>>}

Formats == {"PDF", "DOCX", "HTML", "TXT"}

(***************************************************************************)
(* Sessions                                                                *)
(***************************************************************************)
MaxCalls == 2

\* no setter is running beside an action
NoRace ==
    [mode |-> "none", op |-> "none", args |-> <<>>, target |-> <<>>, fields |-> {}, written |-> {},
     seen |-> <<>>, read |-> {}, sent |-> FALSE]

\* no address has been handed to isPrivateIP
NoProbe == [ip |-> <<>>, asked |-> FALSE, private |-> FALSE]

Snapshot == [core |-> core, docupass |-> docupass, aml |-> aml, vault |-> vault]

NoCall ==
    [facade |-> "none", kind |-> "none", op |-> "none", args |-> <<>>, err |-> "", panicked |-> FALSE,
     payload |-> NoPayload, sent |-> <<>>, result |-> ZeroResult, data |-> NoData]

Constructed ==
    /\ core = NewCoreAPI("key", regionGiven)
    /\ docupass = NewDocuPassAPI("key", "ACME", regionGiven)
    /\ aml = NewAMLAPI("key", regionGiven)
    /\ vault = NewVaultAPI("key", regionGiven)
    /\ pre = [core |-> NewCoreAPI("key", regionGiven),
              docupass |-> NewDocuPassAPI("key", "ACME", regionGiven),
              aml |-> NewAMLAPI("key", regionGiven),
              vault |-> NewVaultAPI("key", regionGiven)]
    /\ last = NoCall
    /\ calls = 0

\* a configuration session on one facade
Init ==
    /\ session = "config"
    /\ regionGiven = "us"
    /\ inst \in {"core", "docupass", "aml"}
    /\ methodIsPrivate \in (IF inst = "docupass" THEN BOOLEAN ELSE {TRUE})
    /\ fs = [n \in MediaStrings |-> Absent]
    /\ vaultRevision = 2
    /\ race = NoRace
    /\ probe = NoProbe
    /\ Constructed

\* a media session: every name is in the same state on disk
InitActions ==
    /\ session = "media"
    /\ regionGiven = "us"
    /\ inst \in {"core", "vault"}
    /\ methodIsPrivate = TRUE
    /\ fs \in {[n \in MediaStrings |-> k] : k \in FileStates}
    /\ vaultRevision \in (IF inst = "vault" THEN {1, 2} ELSE {2})
    /\ race = NoRace
    /\ probe = NoProbe
    /\ Constructed

Ready(facade) ==
    /\ inst = facade
    /\ calls < (IF session = "media" THEN 1 ELSE MaxCalls)

\* the bookkeeping of every call; kind is "setter" or "action"
Called(facade, kind, op, args, o, data) ==
    /\ pre' = Snapshot
    /\ last' = [facade |-> facade, kind |-> kind, op |-> op, args |-> args, err |-> o.err,
                panicked |-> o.panicked, payload |-> o.payload, sent |-> o.sent,
                result |-> o.result, data |-> data]
    /\ calls' = calls + 1
    /\ UNCHANGED <<probe, session, regionGiven, inst, methodIsPrivate, fs, vaultRevision, race>>

\* an action's pointer receiver once the call is over: scan, create,
\* CreateSignature, Validate and both callAPI read the receiver's fields into
\* a payload of their own and assign nothing through the pointer
Receiver_DropsKey(api) == [api EXCEPT !.apiKey = ""]

Receiver(api) == api

\* a setter returns only an error
Returned(err) == Outcome(err, FALSE, NoPayload, <<>>, ZeroResult)

CoreSet(op, args, r) ==
    /\ Ready("core")
    /\ core' = r.api
    /\ Called("core", "setter", op, args, Returned(r.err), NoData)
    /\ UNCHANGED <<docupass, aml, vault>>

CoreAct(op, args, o) ==
    /\ Ready("core")
    /\ core' = Receiver(core)
    /\ Called("core", "action", op, args, o, NoData)
    /\ UNCHANGED <<docupass, aml, vault>>

(***************************************************************************)
(* The calls on CoreAPI                                                    *)
(***************************************************************************)
CoreSetters ==
    \/ CoreSet("ResetConfig", <<>>, Ok(CoreAPI_ResetConfig(core)))
    \/ \E a \in {0, 2} : CoreSet("SetAccuracy", <<a>>, Ok(CoreAPI_SetAccuracy(core, a)))
    \/ \E b \in BOOLEAN, m \in {"1", "2", "quick", "bad"} :
          CoreSet("EnableAuthentication", <<b, m>>, CoreAPI_EnableAuthentication(core, b, m))
    \/ \E n \in {0, 499, 500, 4000, 4001} :
          CoreSet("SetOCRImageResize", <<n>>, CoreAPI_SetOCRImageResize(core, n))
    \/ \E x \in Thresholds :
          CoreSet("SetBiometricThreshold", <<x>>, CoreAPI_SetBiometricThreshold(core, x))
    \/ \E b \in BOOLEAN, f \in {"url", "base64", "png"} :
          CoreSet("EnableImageOutput", <<b, ~b, f>>, CoreAPI_EnableImageOutput(core, b, ~b, f))
    \/ \E b \in BOOLEAN :
          CoreSet("EnableDualSideCheck", <<b>>, Ok(CoreAPI_EnableDualSideCheck(core, b)))
    \/ \E b \in BOOLEAN : CoreSet("VerifyExpiry", <<b>>, Ok(CoreAPI_VerifyExpiry(core, b)))
    \/ \E s \in Strs :
          CoreSet("VerifyDocumentNumber", <<s>>, Ok(CoreAPI_VerifyDocumentNumber(core, s)))
    \/ \E s \in Strs : CoreSet("VerifyName", <<s>>, Ok(CoreAPI_VerifyName(core, s)))
    \/ \E s \in {DOB_OK, DOB_BadDay, <<>>} :
          CoreSet("VerifyDOB", <<s>>, CoreAPI_VerifyDOB(core, s))
    \/ \E s \in AgeRanges :
          CoreSet("VerifyAge", <<s>>, CoreAPI_VerifyAge(core, s))
    \/ \E s \in Strs : CoreSet("VerifyAddress", <<s>>, Ok(CoreAPI_VerifyAddress(core, s)))
    \/ \E s \in Strs : CoreSet("VerifyPostcode", <<s>>, Ok(CoreAPI_VerifyPostcode(core, s)))
    \/ \E s \in Strs : CoreSet("RestrictCountry", <<s>>, Ok(CoreAPI_RestrictCountry(core, s)))
    \/ \E s \in Strs : CoreSet("RestrictState", <<s>>, Ok(CoreAPI_RestrictState(core, s)))
    \/ \E s \in Strs : CoreSet("RestrictType", <<s>>, Ok(CoreAPI_RestrictType(core, s)))
    \/ \E b \in BOOLEAN :
          CoreSet("EnableBarcodeMode", <<b>>, Ok(CoreAPI_EnableBarcodeMode(core, b)))
    \/ \E b \in BOOLEAN : CoreSet("EnableAMLCheck", <<b>>, Ok(CoreAPI_EnableAMLCheck(core, b)))
    \/ \E s \in Strs : CoreSet("SetAMLDatabase", <<s>>, Ok(CoreAPI_SetAMLDatabase(core, s)))
    \/ \E b \in BOOLEAN :
          CoreSet("EnableAMLStrictMatch", <<b>>, Ok(CoreAPI_EnableAMLStrictMatch(core, b)))
    \/ \E a \in BOOLEAN, b \in BOOLEAN :
          CoreSet("EnableVault", <<a, b, ~a, ~b>>, Ok(CoreAPI_EnableVault(core, a, b, ~a, ~b)))
    \/ \E s \in Strs :
          CoreSet("SetVaultData", <<s, "b", "c", "d", s>>,
                  Ok(CoreAPI_SetVaultData(core, s, "b", "c", "d", s)))
    \/ \E t \in {"", "T1"}, f \in Formats :
          CoreSet("GenerateContract", <<t, f, Prefill>>,
                  CoreAPI_GenerateContract(core, t, f, Prefill))

\* the scans record their arguments as scan receives them: primary,
\* secondary, photo, video, passcode
CoreAPI_ScanFront ==
    \E p \in MediaOrEmpty, net \in Nets :
        CoreAct("ScanFront", <<p, <<>>, <<>>, <<>>, <<>>>>, scan1Side(core, p, <<>>, <<>>, <<>>, fs, net))

CoreAPI_ScanFrontFace ==
    \E p \in MediaOrEmpty, f \in MediaOrEmpty, net \in Nets :
        CoreAct("ScanFrontFace", <<p, <<>>, f, <<>>, <<>>>>, scan1Side(core, p, f, <<>>, <<>>, fs, net))

CoreAPI_ScanFrontVideo ==
    \E p \in MediaOrEmpty, v \in MediaOrEmpty, net \in Nets :
        CoreAct("ScanFrontVideo", <<p, <<>>, <<>>, v, <<>>>>, scan1Side(core, p, <<>>, v, <<>>, fs, net))

CoreAPI_ScanFrontVideoCustomPasscode ==
    \E p \in MediaFew, v \in MediaOrEmpty, code \in Passcodes, net \in Nets :
        CoreAct("ScanFrontVideoCustomPasscode", <<p, <<>>, <<>>, v, code>>,
                scan1Side(core, p, <<>>, v, code, fs, net))

CoreAPI_ScanBoth ==
    \E p \in MediaOrEmpty, s \in MediaOrEmpty, net \in Nets :
        CoreAct("ScanBoth", <<p, s, <<>>, <<>>, <<>>>>, scan2Sides(core, p, s, <<>>, <<>>, <<>>, fs, net))

CoreAPI_ScanBothFace ==
    \E p \in MediaFew, s \in MediaFew, f \in MediaOrEmpty, net \in Nets :
        CoreAct("ScanBothFace", <<p, s, f, <<>>, <<>>>>, scan2Sides(core, p, s, f, <<>>, <<>>, fs, net))

CoreAPI_ScanBothVideo ==
    \E p \in MediaFew, s \in MediaFew, v \in MediaOrEmpty, net \in Nets :
        CoreAct("ScanBothVideo", <<p, s, <<>>, v, <<>>>>, scan2Sides(core, p, s, <<>>, v, <<>>, fs, net))

CoreAPI_ScanBothVideoCustomPasscode ==
    \E p \in MediaFew, s \in MediaFew, v \in MediaFew, code \in Passcodes, net \in Nets :
        CoreAct("ScanBothVideoCustomPasscode", <<p, s, <<>>, v, code>>,
                scan2Sides(core, p, s, <<>>, v, code, fs, net))

CoreScans ==
    \/ CoreAPI_ScanFront
    \/ CoreAPI_ScanFrontFace
    \/ CoreAPI_ScanFrontVideo
    \/ CoreAPI_ScanFrontVideoCustomPasscode
    \/ CoreAPI_ScanBoth
    \/ CoreAPI_ScanBothFace
    \/ CoreAPI_ScanBothVideo
    \/ CoreAPI_ScanBothVideoCustomPasscode

(***************************************************************************)
(* The calls on DocuPassAPI                                                *)
(***************************************************************************)
DocuPassSet(op, args, r) ==
    /\ Ready("docupass")
    /\ docupass' = r.api
    /\ Called("docupass", "setter", op, args, Returned(r.err), NoData)
    /\ UNCHANGED <<core, aml, vault>>

DocuPassAct(op, args, o) ==
    /\ Ready("docupass")
    /\ docupass' = Receiver(docupass)
    /\ Called("docupass", "action", op, args, o, NoData)
    /\ UNCHANGED <<core, aml, vault>>

DocuPassSetters ==
    \/ DocuPassSet("ResetConfig", <<>>, Ok(DocuPassAPI_ResetConfig(docupass)))
    \/ \E n \in {0, 1, 10, 11} :
          DocuPassSet("SetMaxAttempt", <<n>>, DocuPassAPI_SetMaxAttempt(docupass, n))
    \/ \E s \in Strs : DocuPassSet("SetCustomID", <<s>>, Ok(DocuPassAPI_SetCustomID(docupass, s)))
    \/ \E s \in Strs :
          DocuPassSet("SetWelcomeMessage", <<s>>, Ok(DocuPassAPI_SetWelcomeMessage(docupass, s)))
    \/ \E s \in Strs : DocuPassSet("SetLogo", <<s>>, Ok(DocuPassAPI_SetLogo(docupass, s)))
    \/ \E b \in BOOLEAN :
          DocuPassSet("HideBrandingLogo", <<b>>, Ok(DocuPassAPI_HideBrandingLogo(docupass, b)))
    \/ \E s \in Strs :
          DocuPassSet("SetCustomHTML", <<s>>, Ok(DocuPassAPI_SetCustomHTML(docupass, s)))
    \/ \E s \in Strs : DocuPassSet("SetLanguage", <<s>>, Ok(DocuPassAPI_SetLanguage(docupass, s)))
    \/ \E u \in CallbackURLs :
          DocuPassSet("SetCallbackUrl", <<u>>,
                      DocuPassAPI_SetCallbackUrl(docupass, u, methodIsPrivate))
    \/ \E u \in {<<>>, URL_Public, URL_NoScheme}, b \in BOOLEAN :
          LET s == IF b THEN u ELSE URL_Public
              f == IF b THEN URL_Public ELSE u
          IN DocuPassSet("SetRedirectURL", <<s, f>>, DocuPassAPI_SetRedirectURL(docupass, s, f))
    \/ \E a \in AuthArgs :
          DocuPassSet("EnableAuthentication", a,
                      DocuPassAPI_EnableAuthentication(docupass, a[1], a[2], a[3]))
    \/ \E a \in FaceArgs :
          DocuPassSet("EnableFaceVerification", a,
                      DocuPassAPI_EnableFaceVerification(docupass, a[1], a[2], a[3]))
    \/ \E b \in BOOLEAN : DocuPassSet("SetReusable", <<b>>, Ok(DocuPassAPI_SetReusable(docupass, b)))
    \/ \E b \in BOOLEAN, n \in {0, 1, 2} :
          DocuPassSet("SetCallbackImage", <<b, ~b, n>>,
                      Ok(DocuPassAPI_SetCallbackImage(docupass, b, ~b, n)))
    \/ \E a \in QRArgs :
          DocuPassSet("SetQRCodeFormat", a,
                      DocuPassAPI_SetQRCodeFormat(docupass, a[1], a[2], a[3], a[4]))
    \/ \E b \in BOOLEAN :
          DocuPassSet("EnableDualSideCheck", <<b>>, Ok(DocuPassAPI_EnableDualSideCheck(docupass, b)))
    \/ \E b \in BOOLEAN :
          DocuPassSet("EnableAMLCheck", <<b>>, Ok(DocuPassAPI_EnableAMLCheck(docupass, b)))
    \/ \E s \in Strs :
          DocuPassSet("SetAMLDatabase", <<s>>, Ok(DocuPassAPI_SetAMLDatabase(docupass, s)))
    \/ \E b \in BOOLEAN :
          DocuPassSet("EnableAMLStrictMatch", <<b>>,
                      Ok(DocuPassAPI_EnableAMLStrictMatch(docupass, b)))
    \/ \E b \in BOOLEAN :
          DocuPassSet("EnablePhoneVerification", <<b>>,
                      Ok(DocuPassAPI_EnablePhoneVerification(docupass, b)))
    \/ \E s \in Strs :
          DocuPassSet("SMSVerificationLink", <<s>>, Ok(DocuPassAPI_SMSVerificationLink(docupass, s)))
    \/ \E s \in Strs :
          DocuPassSet("SMSContractLink", <<s>>, Ok(DocuPassAPI_SMSContractLink(docupass, s)))
    \/ \E s \in Strs : DocuPassSet("VerifyPhone", <<s>>, Ok(DocuPassAPI_VerifyPhone(docupass, s)))
    \/ \E b \in BOOLEAN : DocuPassSet("VerifyExpiry", <<b>>, Ok(DocuPassAPI_VerifyExpiry(docupass, b)))
    \/ \E s \in Strs :
          DocuPassSet("VerifyDocumentNumber", <<s>>,
                      Ok(DocuPassAPI_VerifyDocumentNumber(docupass, s)))
    \/ \E s \in Strs : DocuPassSet("VerifyName", <<s>>, Ok(DocuPassAPI_VerifyName(docupass, s)))
    \/ \E s \in {DOB_OK, DOB_BadDay, <<>>} :
          DocuPassSet("VerifyDOB", <<s>>, DocuPassAPI_VerifyDOB(docupass, s))
    \/ \E s \in AgeRanges :
          DocuPassSet("VerifyAge", <<s>>, DocuPassAPI_VerifyAge(docupass, s))
    \/ \E s \in Strs : DocuPassSet("VerifyAddress", <<s>>, Ok(DocuPassAPI_VerifyAddress(docupass, s)))
    \/ \E s \in Strs :
          DocuPassSet("VerifyPostcode", <<s>>, Ok(DocuPassAPI_VerifyPostcode(docupass, s)))
    \/ \E s \in Strs :
          DocuPassSet("RestrictCountry", <<s>>, Ok(DocuPassAPI_RestrictCountry(docupass, s)))
    \/ \E s \in Strs : DocuPassSet("RestrictState", <<s>>, Ok(DocuPassAPI_RestrictState(docupass, s)))
    \/ \E s \in Strs : DocuPassSet("RestrictType", <<s>>, Ok(DocuPassAPI_RestrictType(docupass, s)))
    \/ \E b \in BOOLEAN : DocuPassSet("EnableVault", <<b>>, Ok(DocuPassAPI_EnableVault(docupass, b)))
    \/ \E t \in {"", "T1"}, f \in Formats :
          DocuPassSet("GenerateContract", <<t, f, Prefill>>,
                      DocuPassAPI_GenerateContract(docupass, t, f, Prefill))
    \/ \E t \in {"", "T2"}, f \in Formats :
          DocuPassSet("SignContract", <<t, f, Prefill>>,
                      DocuPassAPI_SignContract(docupass, t, f, Prefill))

\* CreateIFrame, CreateMobile, CreateRedirection and CreateLiveMobile are
\* create with modes 0 to 3
DocuPassAPI_Create ==
    \E mode \in 0..3, net \in Nets :
        DocuPassAct(<<"CreateIFrame", "CreateMobile", "CreateRedirection",
                      "CreateLiveMobile">>[mode + 1], <<>>, create(docupass, mode, net))

DocuPassAPI_Sign ==
    \E tpl \in {"", "T3"}, f \in {"PDF", "TXT"}, net \in Nets :
        DocuPassAct("CreateSignature", <<tpl, f, Prefill>>,
                    DocuPassAPI_CreateSignature(docupass, tpl, f, Prefill, net))

DocuPassAPI_DoValidate ==
    \E r \in Strs, net \in Nets :
        DocuPassAct("Validate", <<r, "h">>, DocuPassAPI_Validate(docupass, r, "h", net))

(***************************************************************************)
(* The calls on AMLAPI                                                     *)
(***************************************************************************)
AMLSet(op, args, r) ==
    /\ Ready("aml")
    /\ aml' = r.api
    /\ Called("aml", "setter", op, args, Returned(r.err), NoData)
    /\ UNCHANGED <<core, docupass, vault>>

AMLAct(op, args, o) ==
    /\ Ready("aml")
    /\ aml' = Receiver(aml)
    /\ Called("aml", "action", op, args, o, NoData)
    /\ UNCHANGED <<core, docupass, vault>>

AMLSetters ==
    \/ \E s \in {"", "x", "au_dfat,ca_dfatd"} :
          AMLSet("SetAMLDatabase", <<s>>, Ok(AMLAPI_SetAMLDatabase(aml, s)))
    \/ \E s \in {"", "person", "legalentity", "Person", "company"} :
          AMLSet("SetEntityType", <<s>>, AMLAPI_SetEntityType(aml, s))

AMLSearches ==
    \/ \E n \in {"", "Ann", "Bob"}, c \in {"", "US"}, dob \in {"", "1990-01-31"}, net \in NetOutcomes :
          AMLAct("SearchByName", <<n, c, dob>>, AMLAPI_SearchByName(aml, n, c, dob, net))
    \/ \E n \in {"", "P123", "X9"}, c \in {"", "US"}, dob \in {"", "1990-01-31"}, net \in NetOutcomes :
          AMLAct("SearchByIDNumber", <<n, c, dob>>, AMLAPI_SearchByIDNumber(aml, n, c, dob, net))

(***************************************************************************)
(* The calls on VaultAPI                                                   *)
(***************************************************************************)
VaultAct(op, args, r) ==
    /\ Ready("vault")
    /\ vault' = Receiver(vault)
    /\ Called("vault", "action", op, args, r.outcome, r.data)
    /\ UNCHANGED <<core, docupass, aml>>

VaultActions ==
    \/ \E id \in Strs, net \in Nets :
          VaultAct("Get", <<id>>,
                   IF vaultRevision = 1 THEN Typed_Get(vault, id, net) ELSE VaultAPI_Get(vault, id, net))
    \/ \E n \in {0, 5, 6}, net \in Nets :
          LET filter == [i \in 1..n |-> "name=A"]
          IN VaultAct("List", <<filter, "", "ASC", 10, 0>>,
                      IF vaultRevision = 1 THEN Typed_List(vault, filter, "", "ASC", 10, 0, net)
                      ELSE VaultAPI_List(vault, filter, "", "ASC", 10, 0, net))
    \/ \E id \in Strs, data \in {EmptyMap, [name |-> "Ann"], [id |-> "other"]}, net \in Nets :
          VaultAct("Update", <<id, data>>,
                   IF vaultRevision = 1 THEN Typed_Update(vault, MapSet(data, "id", id), net)
                   ELSE VaultAPI_Update(vault, id, data, net))
    \/ \E id \in Strs, net \in Nets :
          VaultAct("Delete", <<id>>,
                   IF vaultRevision = 1 THEN Typed_Delete(vault, id, net)
                   ELSE VaultAPI_Delete(vault, id, net))
    \/ \E id \in Strs, image \in MediaOrEmpty, k \in {0, 1, 2}, net \in Nets :
          LET f == IF image = <<>> THEN Absent ELSE fs[image]
          IN VaultAct("AddImage", <<id, image, k>>,
                      IF vaultRevision = 1 THEN Typed_AddImage(vault, id, image, k, f, net)
                      ELSE VaultAPI_AddImage(vault, id, image, k, f, net))
    \/ \E id \in Strs, im \in Strs, net \in Nets :
          VaultAct("DeleteImage", <<id, im>>,
                   IF vaultRevision = 1 THEN Typed_DeleteImage(vault, id, im, net)
                   ELSE VaultAPI_DeleteImage(vault, id, im, net))
    \/ \E image \in MediaOrEmpty, x \in {F(500)}, net \in Nets :
          LET f == IF image = <<>> THEN Absent ELSE fs[image]
          IN VaultAct("SearchFace", <<image, 10, x>>,
                      IF vaultRevision = 1 THEN Typed_SearchFace(vault, image, 10, x, f, net)
                      ELSE VaultAPI_SearchFace(vault, image, 10, x, f, net))
    \/ \E net \in Nets :
          VaultAct("TrainFace", <<>>,
                   IF vaultRevision = 1 THEN Typed_TrainFace(vault, net)
                   ELSE VaultAPI_TrainFace(vault, net))
    \/ \E net \in Nets :
          VaultAct("TrainingStatus", <<>>,
                   IF vaultRevision = 1 THEN Typed_TrainingStatus(vault, net)
                   ELSE VaultAPI_TrainingStatus(vault, net))

(***************************************************************************)
(* The two specifications                                                  *)
(***************************************************************************)
\* a media session starts over once the last call has been looked at
Forget ==
    /\ session = "media"
    /\ last # NoCall
    /\ pre' = Snapshot
    /\ last' = NoCall
    /\ calls' = 0
    /\ UNCHANGED <<probe, session, regionGiven, inst, methodIsPrivate, fs, core, docupass, aml, vault, vaultRevision,
                   race>>

Next ==
    \/ CoreSetters
    \/ CoreScans
    \/ DocuPassSetters
    \/ DocuPassAPI_Create
    \/ DocuPassAPI_Sign
    \/ DocuPassAPI_DoValidate
    \/ AMLSetters
    \/ AMLSearches

Spec == Init /\ [][Next]_vars

NextActions ==
    \/ CoreScans
    \/ VaultActions
    \/ Forget

SpecActions == InitActions /\ [][NextActions]_vars

\* the regions a caller can name: the two built in, in both spellings, the
\* default, and two strings of the caller's own
Regions == {"", "us", "US", "eu", "EU", "Us", "http://localhost:8080"}

\* a session on one facade of any region
InitRegion ==
    /\ session = "endpoint"
    /\ regionGiven \in Regions
    /\ inst \in {"core", "docupass", "aml", "vault"}
    /\ methodIsPrivate = TRUE
    /\ fs = [n \in MediaStrings |-> Absent]
    /\ vaultRevision \in (IF inst = "vault" THEN {1, 2} ELSE {2})
    /\ race = NoRace
    /\ probe = NoProbe
    /\ Constructed

NextRegion ==
    \/ Next
    \/ VaultActions

SpecRegion == InitRegion /\ [][NextRegion]_vars

(***************************************************************************)
(* A setter and an action at the same time on one facade                   *)
(***************************************************************************)
\* the configuration of the facade the run drives
Config == IF inst = "core" THEN core.config ELSE docupass.config

\* one goroutine calls a setter while another calls an action, either with no
\* synchronisation ("free") or with every call under one lock of the caller's
\* ("locked")
InitRace ==
    /\ session = "race"
    /\ regionGiven = "us"
    /\ inst \in {"core", "docupass"}
    /\ methodIsPrivate = TRUE
    /\ fs = [n \in MediaStrings |-> Absent]
    /\ vaultRevision = 2
    /\ race \in {[NoRace EXCEPT !.mode = m] : m \in {"free", "locked"}}
    /\ probe = NoProbe
    /\ Constructed

\* the setter is entered: its tests run on its arguments, and r.api holds the
\* values its assignments will store, fields the fields it assigns
Begins(facade, op, args, r, fields) ==
    /\ session = "race"
    /\ inst = facade
    /\ race.op = "none"
    /\ race' = [race EXCEPT !.op = op, !.args = args, !.target = r.api.config,
                            !.fields = IF r.err = "" THEN fields ELSE {}, !.seen = Config]
    /\ pre' = Snapshot
    /\ UNCHANGED <<probe, session, regionGiven, inst, methodIsPrivate, fs, core, docupass, aml, vault,
                   vaultRevision, last, calls>>

RaceSetters ==
    \/ \E a \in BOOLEAN, b \in BOOLEAN :
          Begins("core", "EnableVault", <<a, b, ~a, ~b>>, Ok(CoreAPI_EnableVault(core, a, b, ~a, ~b)),
                 {"vaultSave", "vaultSaveUnrecognized", "vaultNoDuplicate", "vaultAutoMerge"})
    \/ \E s \in Strs :
          Begins("core", "SetVaultData", <<s, "b", "c", "d", s>>,
                 Ok(CoreAPI_SetVaultData(core, s, "b", "c", "d", s)),
                 {"vaultCustomData1", "vaultCustomData2", "vaultCustomData3", "vaultCustomData4",
                  "vaultCustomData5"})
    \/ \E b \in BOOLEAN, f \in {"url", "base64", "png"} :
          Begins("core", "EnableImageOutput", <<b, ~b, f>>, CoreAPI_EnableImageOutput(core, b, ~b, f),
                 {"outputImage", "outputFace", "outputMode"})
    \/ \E t \in {"", "T1"}, f \in {"PDF", "TXT"} :
          Begins("core", "GenerateContract", <<t, f, Prefill>>,
                 CoreAPI_GenerateContract(core, t, f, Prefill),
                 {"contractGenerate", "contractFormat", "contractPrefillData"})
    \/ \E a \in QRArgs :
          Begins("docupass", "SetQRCodeFormat", a,
                 DocuPassAPI_SetQRCodeFormat(docupass, a[1], a[2], a[3], a[4]),
                 {"qrColor", "qrBgColor", "qrSize", "qrMargin"})
    \/ \E u \in {URL_Public, URL_NoScheme}, f \in {<<>>, URL_Public} :
          Begins("docupass", "SetRedirectURL", <<u, f>>, DocuPassAPI_SetRedirectURL(docupass, u, f),
                 {"successRedir", "failRedir"})
    \/ \E t \in {"", "T1"}, f \in {"PDF", "TXT"} :
          Begins("docupass", "GenerateContract", <<t, f, Prefill>>,
                 DocuPassAPI_GenerateContract(docupass, t, f, Prefill),
                 {"contractGenerate", "contractSign", "contractFormat", "contractPrefillData"})

\* one assignment of the setter without the caller's lock
RaceWrite_Unlocked ==
    /\ session = "race"
    /\ \E f \in race.fields \ race.written :
          /\ core' = IF inst = "core" THEN [core EXCEPT !.config[f] = race.target[f]] ELSE core
          /\ docupass' = IF inst = "docupass" THEN [docupass EXCEPT !.config[f] = race.target[f]]
                         ELSE docupass
          /\ race' = [race EXCEPT !.written = @ \cup {f}]
    /\ UNCHANGED <<probe, session, regionGiven, inst, methodIsPrivate, fs, aml, vault, vaultRevision, pre,
                   last, calls>>

\* one assignment of the setter; with no synchronisation the other goroutine
\* may observe the assignments in any order. Under the caller's lock the setter
\* runs only while the action is not between its first read and its request
RaceWrite ==
    /\ session = "race"
    /\ race.mode = "locked" => race.read = {} \/ race.sent
    /\ \E f \in race.fields \ race.written :
          /\ core' = IF inst = "core" THEN [core EXCEPT !.config[f] = race.target[f]] ELSE core
          /\ docupass' = IF inst = "docupass" THEN [docupass EXCEPT !.config[f] = race.target[f]]
                         ELSE docupass
          /\ race' = [race EXCEPT !.written = @ \cup {f}]
    /\ UNCHANGED <<probe, session, regionGiven, inst, methodIsPrivate, fs, aml, vault, vaultRevision, pre,
                   last, calls>>

\* the action reads one field of the configuration into its payload; under the
\* caller's lock it runs only while the setter is not between its assignments
RaceRead ==
    /\ session = "race"
    /\ race.op # "none"
    /\ ~race.sent
    /\ race.mode = "locked" => race.written \in {{}, race.fields}
    /\ \E f \in race.fields \ race.read :
          race' = [race EXCEPT !.seen[f] = Config[f], !.read = @ \cup {f}]
    /\ UNCHANGED <<probe, session, regionGiven, inst, methodIsPrivate, fs, core, docupass, aml, vault,
                   vaultRevision, pre, last, calls>>

\* ScanFront or CreateIframe with the configuration as the action read it
RaceCall(cfg, net) ==
    IF inst = "core"
    THEN scan1Side([core EXCEPT !.config = cfg], Media_URL, <<>>, <<>>, <<>>, fs, net)
    ELSE create([docupass EXCEPT !.config = cfg], 0, net)

\* the action has read every field: it posts its payload and returns
RaceSend ==
    /\ session = "race"
    /\ race.op # "none"
    /\ ~race.sent
    /\ race.read = race.fields
    /\ \E net \in Nets :
          last' = [facade |-> inst, kind |-> "action",
                   op |-> IF inst = "core" THEN "ScanFront" ELSE "CreateIFrame", args |-> <<>>,
                   err |-> RaceCall(race.seen, net).err,
                   panicked |-> RaceCall(race.seen, net).panicked,
                   payload |-> RaceCall(race.seen, net).payload,
                   sent |-> RaceCall(race.seen, net).sent,
                   result |-> RaceCall(race.seen, net).result, data |-> NoData]
    /\ calls' = calls + 1
    /\ race' = [race EXCEPT !.sent = TRUE]
    /\ UNCHANGED <<probe, session, regionGiven, inst, methodIsPrivate, fs, core, docupass, aml, vault,
                   vaultRevision, pre>>

NextRace ==
    \/ RaceSetters
    \/ RaceWrite
    \/ RaceRead
    \/ RaceSend

SpecRace == InitRace /\ [][NextRace]_vars

(***************************************************************************)
(* isPrivateIP on its own                                                  *)
(***************************************************************************)
\* addresses around the edges of the eight blocks and of the loopback and
\* link-local ranges: four bytes, the same IPv4-mapped, and sixteen bytes
IPv4s ==
    {<<a, b, 0, c>> : a \in {8, 10, 127, 169, 172, 192, 224}, b \in {0, 15, 16, 31, 32, 168, 254},
                      c \in {0, 1}}

IPv6s ==
    {<<a, b, 0, 0, 0, 0, 0, 0, 0, 0, 0, 0, 0, 0, 0, c>> :
        a \in {0, 32, 251, 252, 253, 254, 255}, b \in {0, 2, 127, 128, 191, 192}, c \in {0, 1}}

IPs == IPv4s \cup {v4InV6Prefix \o ip : ip \in IPv4s} \cup IPv6s

\* one address, under a build with the IsPrivate method or one without it
InitIP ==
    /\ session = "ip"
    /\ regionGiven = "us"
    /\ inst = "docupass"
    /\ methodIsPrivate \in BOOLEAN
    /\ fs = [n \in MediaStrings |-> Absent]
    /\ vaultRevision = 2
    /\ race = NoRace
    /\ probe \in {[NoProbe EXCEPT !.ip = ip] : ip \in IPs}
    /\ Constructed

AskIsPrivateIP ==
    /\ session = "ip"
    /\ ~probe.asked
    /\ probe' = [probe EXCEPT !.asked = TRUE, !.private = isPrivateIP(probe.ip, methodIsPrivate)]
    /\ UNCHANGED <<session, regionGiven, inst, methodIsPrivate, fs, core, docupass, aml, vault,
                   vaultRevision, pre, last, calls, race>>

SpecIP == InitIP /\ [][AskIsPrivateIP]_vars

(***************************************************************************)
(* Setters: atomicity, the callback guard, reset                           *)
(***************************************************************************)
\* the configuration of the three facades that have one
Configs(s) == <<s.core.config, s.docupass.config, s.aml.amlDatabases, s.aml.amlEntityType>>

\* C1: a setter of CoreAPI, DocuPassAPI or AMLAPI that returns a validation
\* error leaves every field of the facade's configuration as it was before
\* the call.
C1_SetterAtomic ==
    (last.kind = "setter" /\ last.err # "") => Configs(Snapshot) = Configs(pre)

\* URL.Hostname(): the host without its port and without the brackets of an
\* IPv6 literal
Hostname(host) ==
    IF HasPrefix(host, <<"[">>)
    THEN IF Index(host, "]") = 0 THEN Drop(host, 1) ELSE SubSeq(host, 2, Index(host, "]") - 1)
    ELSE IF LastIndex(host, ":") = 0 THEN host ELSE Take(host, LastIndex(host, ":") - 1)

\* the host is the name "localhost" in any letter case, or a loopback,
\* link-local or private-range address
LocalHost(name) ==
    \/ ToLower(name) = <<"l", "o", "c", "a", "l", "h", "o", "s", "t">>
    \/ /\ ParseIP(name) # <<>>
       /\ \/ IsLoopback(ParseIP(name))
          \/ IsLinkLocalUnicast(ParseIP(name))
          \/ IsLinkLocalMulticast(ParseIP(name))
          \/ IsPrivate(ParseIP(name))

\* what the guard has to refuse: a URL with a local host, or one whose scheme
\* is not http or https
Refusable(u) ==
    /\ ~ParseRequestURI(u).err
    /\ \/ LocalHost(Hostname(ParseRequestURI(u).Host))
       \/ ParseRequestURI(u).Scheme \notin {<<"h", "t", "t", "p">>, <<"h", "t", "t", "p", "s">>}

\* C2: SetCallbackUrl returns an error and leaves callbackUrl unchanged for
\* every URL whose host is local (loopback, link-local, private range or
\* "localhost", with or without a port, IPv4 or bracketed IPv6) and for every
\* URL whose scheme is not http or https, and stores an absolute http or
\* https URL with a public host.
C2_CallbackGuard ==
    (last.facade = "docupass" /\ last.op = "SetCallbackUrl") =>
        /\ Refusable(last.args[1]) =>
              /\ last.err # ""
              /\ docupass.config.callbackUrl = pre.docupass.config.callbackUrl
        /\ last.args[1] = URL_Public =>
              /\ last.err = ""
              /\ docupass.config.callbackUrl = URL_Public

(***************************************************************************)
(* Media arguments                                                         *)
(***************************************************************************)
ScanOps ==
    {"ScanFront", "ScanFrontFace", "ScanFrontVideo", "ScanFrontVideoCustomPasscode",
     "ScanBoth", "ScanBothFace", "ScanBothVideo", "ScanBothVideoCustomPasscode"}

IsScan == last.facade = "core" /\ last.op \in ScanOps

\* AddImage and SearchFace, brought to the point where the image is looked at
IsVaultImage ==
    /\ last.facade = "vault"
    /\ \/ last.op = "AddImage" /\ last.args[1] # "" /\ last.args[3] \in {0, 1}
       \/ last.op = "SearchFace"

VaultImage == IF last.op = "AddImage" THEN last.args[2] ELSE last.args[1]

\* the two wire fields of each media argument of a scan, and the error that
\* names it
MediaFields ==
    << [url |-> "Url", base64 |-> "FileBase64",
        err |-> "invalid primary document image, file not found or malformed URL"],
       [url |-> "UrlBack", base64 |-> "FileBackBase64",
        err |-> "invalid secondary document image, file not found or malformed URL"],
       [url |-> "FaceUrl", base64 |-> "FaceBase64",
        err |-> "invalid face image, file not found or malformed URL"],
       [url |-> "VideoUrl", base64 |-> "VideoBase64",
        err |-> "invalid face video, file not found or malformed URL"] >>

UrlField(i) == last.payload[MediaFields[i].url]

Base64Field(i) == last.payload[MediaFields[i].base64]

\* the two wire fields of a vault request; a key that is not in the map is
\* not on the wire
VaultField(key) == IF key \in DOMAIN last.payload THEN last.payload[key] ELSE <<>>

Sent == last.sent # <<>>

PathChars == Letter \cup Digit \cup {"-", ".", "_", "~", "/"}

\* s reads scheme "://" host path: a scheme of a letter and then letters,
\* digits, "+", "-" or ".", a non-empty host of letters, digits, "-" and ".",
\* and a path that is empty or begins with "/"
AbsoluteURIWithHost(s) ==
    \E k \in 2..Len(s) :
        /\ s[1] \in Letter
        /\ \A j \in 2..(k - 1) : s[j] \in Letter \cup SchemeTail
        /\ Len(s) >= k + 3
        /\ SubSeq(s, k, k + 2) = <<":", "/", "/">>
        /\ s[k + 3] \in Letter \cup Digit
        /\ \E e \in (k + 3)..Len(s) :
              /\ AllIn(SubSeq(s, k + 3, e), Letter \cup Digit \cup {"-", "."})
              /\ e < Len(s) => s[e + 1] = "/"
              /\ AllIn(Drop(s, e), PathChars)

\* the errors a scan returns before it classifies anything, and for a passcode
BeforeMedia == {"primary document image required", "secondary document image required"}

PasscodeError == "please provide a 4 digit passcode for video biometric verification"

\* C3: a media argument that is an absolute URI with a host goes verbatim to
\* its URL field with its base64 field empty, whatever its length and
\* whatever the file system holds under that name; such an argument never
\* ends the call as a missing file or an invalid argument would.
C3_URLFirst ==
    /\ (IsScan /\ Sent) =>
          \A i \in 1..4 :
              AbsoluteURIWithHost(last.args[i]) =>
                  UrlField(i) = last.args[i] /\ Base64Field(i) = <<>>
    /\ (IsScan /\ \A i \in 1..4 : last.args[i] = <<>> \/ AbsoluteURIWithHost(last.args[i])) =>
          Sent \/ last.err \in BeforeMedia \cup {PasscodeError}
    /\ (IsVaultImage /\ AbsoluteURIWithHost(VaultImage)) =>
          /\ Sent
          /\ VaultField("imageurl") = VaultImage
          /\ VaultField("image") = <<>>

\* a URL longer than 100 bytes, with a regular file under that very name, was
\* sent as the primary document's URL
C3_Witness ==
    /\ IsScan
    /\ Sent
    /\ last.args[1] = Media_LongURL
    /\ fs[Media_LongURL] = RegularFile(FileBytes)
    /\ UrlField(1) = Media_LongURL

\* s parses as a URI that has both a scheme and a host
SchemeAndHost(s) ==
    /\ ~ParseRequestURI(s).err
    /\ ParseRequestURI(s).Scheme # <<>>
    /\ ParseRequestURI(s).Host # <<>>

\* C4: a media argument is placed in a URL field only if it is an absolute
\* URI with both a scheme and a host: a path beginning with "/", base64 text
\* beginning with "/" and an opaque "scheme:data" string never are.
C4_URLNeedsSchemeAndHost ==
    /\ (IsScan /\ Sent) =>
          \A i \in 1..4 : UrlField(i) # <<>> => SchemeAndHost(UrlField(i))
    /\ (IsVaultImage /\ Sent /\ VaultField("imageurl") # <<>>) =>
          SchemeAndHost(VaultField("imageurl"))

\* the argument names a regular file and url.ParseRequestURI rejects it
NamesFile(s) == s # <<>> /\ ParseRequestURI(s).err /\ fs[s].stat = "file"

\* C5: a media argument that names an existing regular file and is not a
\* valid URI is sent as the standard base64 encoding of exactly the file's
\* bytes, its URL field empty.
C5_FileBytes ==
    /\ (IsScan /\ Sent) =>
          \A i \in 1..4 :
              NamesFile(last.args[i]) =>
                  /\ Base64Field(i) = EncodeToString(fs[last.args[i]].bytes)
                  /\ UrlField(i) = <<>>
    /\ (IsVaultImage /\ Sent /\ NamesFile(VaultImage)) =>
          /\ VaultField("image") = EncodeToString(fs[VaultImage].bytes)
          /\ VaultField("imageurl") = <<>>

\* the argument is neither a URI (as url.ParseRequestURI judges) nor a
\* regular file
NoURINoFile(s) == s # <<>> /\ ParseRequestURI(s).err /\ fs[s].stat # "file"

\* C6: a media argument longer than 100 characters that is neither a valid
\* URI nor an existing file is copied unmodified into its base64 field, its
\* URL field empty, and the call goes on to the network.
C6_InlineVerbatim ==
    /\ (IsScan /\ Sent) =>
          \A i \in 1..4 :
              (NoURINoFile(last.args[i]) /\ Len(last.args[i]) > InlineMinLen) =>
                  Base64Field(i) = last.args[i] /\ UrlField(i) = <<>>
    /\ (last.op = "ScanFront" /\ NoURINoFile(last.args[1])
            /\ Len(last.args[1]) > InlineMinLen) => Sent
    /\ (IsVaultImage /\ NoURINoFile(VaultImage) /\ Len(VaultImage) > InlineMinLen) =>
          /\ Sent
          /\ VaultField("image") = VaultImage
          /\ VaultField("imageurl") = <<>>

\* the first argument of the call that is neither URI nor file and at most
\* 100 characters long, every argument before it being empty or a URI
FirstInvalid(i) ==
    /\ NoURINoFile(last.args[i])
    /\ Len(last.args[i]) <= InlineMinLen
    /\ \A j \in 1..(i - 1) : last.args[j] = <<>> \/ AbsoluteURIWithHost(last.args[j])

\* C7: a non-empty media argument of at most 100 characters that is neither
\* a valid URI nor an existing regular file makes the call return an error
\* that names the argument, and no request is sent.
C7_InvalidArgument ==
    /\ (IsScan /\ last.err \notin BeforeMedia) =>
          \A i \in 1..4 :
              FirstInvalid(i) =>
                  /\ ~last.panicked
                  /\ last.err = MediaFields[i].err
                  /\ ~Sent
    /\ (IsVaultImage /\ NoURINoFile(VaultImage) /\ Len(VaultImage) <= InlineMinLen) =>
          /\ ~last.panicked
          /\ last.err = "invalid image, file not found or malformed URL"
          /\ ~Sent

\* C8: in every request that is sent, each media argument that was supplied
\* has exactly one of its two wire fields non-empty.
C8_ExactlyOneField ==
    /\ (IsScan /\ Sent) =>
          \A i \in 1..4 :
              last.args[i] # <<>> => ((UrlField(i) # <<>>) # (Base64Field(i) # <<>>))
    /\ (IsVaultImage /\ Sent) =>
          ((VaultField("imageurl") # <<>>) # (VaultField("image") # <<>>))

(***************************************************************************)
(* Local validation of the actions, and reset                              *)
(***************************************************************************)
\* the errors the actions return from their own checks of the arguments
ValidationErrors ==
    BeforeMedia \cup {PasscodeError} \cup {MediaFields[i].err : i \in 1..4} \cup
    {"vault entry ID required", "data required", "image ID required",
     "filter should be an array containing maximum of 5 filter statements",
     "invalid image type, 0 or 1 accepted",
     "invalid image, file not found or malformed URL",
     "invalid image, file not found, or malformed URL"}

\* C9: an action call that returns a local validation error has issued no
\* HTTP request.
C9_NoRequestOnValidationError ==
    (last.kind = "action" /\ last.err \in ValidationErrors) => last.sent = <<>>

\* a two-sided scan with a video was refused for its passcode after all three
\* media arguments had been accepted
C9_Witness ==
    /\ last.op = "ScanBothVideoCustomPasscode"
    /\ last.err = PasscodeError
    /\ last.args[4] # <<>>
    /\ last.sent = <<>>

\* C10: ResetConfig sets every configuration field to its default and leaves
\* the API key, the endpoint and the company name alone; the payload built
\* afterwards is the payload of a freshly constructed facade with the same
\* credentials.
C10_ResetConfig ==
    /\ (last.facade = "core" /\ last.op = "ResetConfig") =>
          /\ core.config = defaultCoreConfig
          /\ core.apiKey = pre.core.apiKey
          /\ core.apiEndpoint = pre.core.apiEndpoint
          /\ coreRequest(core) = coreRequest(NewCoreAPI("key", regionGiven))
    /\ (last.facade = "docupass" /\ last.op = "ResetConfig") =>
          /\ docupass.config = defaultDocuPassConfig
          /\ docupass.apiKey = pre.docupass.apiKey
          /\ docupass.apiEndpoint = pre.docupass.apiEndpoint
          /\ docupass.companyName = pre.docupass.companyName
          /\ requestFromConfig(docupass) = requestFromConfig(NewDocuPassAPI("key", "ACME", regionGiven))

\* ResetConfig was called on a facade whose configuration a setter had changed
C10_Witness ==
    /\ last.op = "ResetConfig"
    /\ \/ last.facade = "core" /\ pre.core.config # defaultCoreConfig
       \/ last.facade = "docupass" /\ pre.docupass.config # defaultDocuPassConfig

(***************************************************************************)
(* Setters: idempotence; actions: the frame                                *)
(***************************************************************************)
\* the step repeats the setter call that was made last, which had succeeded
RepeatsSetter ==
    /\ last.kind = "setter"
    /\ last.err = ""
    /\ last'.kind = "setter"
    /\ last'.facade = last.facade
    /\ last'.op = last.op
    /\ last'.args = last.args

CallOutcome ==
    IF last.panicked THEN "panic"
    ELSE IF last.sent = <<>> THEN "validation"
    ELSE IF last.err = ConnectError THEN "transport"
    ELSE IF last.result.error.present /\ last.result.error.message # "" THEN "application"
    ELSE "success"

\* C12: no action call changes the configuration or the credentials of its
\* facade, however the call ends; the template, format and prefill data of
\* CreateSignature are in the payload and nowhere in the configuration.
C12_ActionFrame ==
    last.kind = "action" =>
        /\ Snapshot = pre
        /\ last.op = "CreateSignature" =>
              /\ last.payload.TemplateID = last.args[1]
              /\ last.payload.ContractFormat = last.args[2]
              /\ last.payload.ContractPrefillData = last.args[3]
              /\ last.payload = [requestFromConfig(pre.docupass) EXCEPT
                                    !.TemplateID = last.args[1],
                                    !.ContractFormat = last.args[2],
                                    !.ContractPrefillData = last.args[3]]

\* CreateSignature, answered with an application error, on a facade whose
\* configuration holds another contract to sign
C12_Witness ==
    /\ last.op = "CreateSignature"
    /\ last.args[1] = "T3"
    /\ CallOutcome = "application"
    /\ docupass.config.contractSign = "T2"
    /\ docupass.config.contractFormat = "DOCX"

(***************************************************************************)
(* Actions: how a call ends                                                *)
(***************************************************************************)
TwoSidedOps == {"ScanBoth", "ScanBothFace", "ScanBothVideo", "ScanBothVideoCustomPasscode"}

\* C13: a two-sided scan called with an empty secondary document fails with
\* "secondary document image required", returns the zero result and sends no
\* request.
C13_SecondaryRequired ==
    (last.op \in TwoSidedOps /\ last.args[2] = <<>>) =>
        /\ ~last.panicked
        /\ last.err = "secondary document image required"
        /\ last.result = ZeroResult
        /\ last.sent = <<>>

\* ScanBothFace without a secondary document, its primary document a name
\* whose lookup fails and its photo a URL
C13_Witness ==
    /\ last.op = "ScanBothFace"
    /\ last.args[1] = Media_RelPath /\ fs[Media_RelPath] = StatFails
    /\ last.args[2] = <<>>
    /\ last.args[3] = Media_URL
    /\ last.err = "secondary document image required"

\* the typed results the answers of the transport decode to
Decodings == {Unmarshal(n.body) : n \in {n \in NetOutcomes : n.ok}}

\* a scan, a create call or CreateSignature that was answered
TypedAnswered ==
    /\ last.kind = "action"
    /\ last.facade \in {"core", "docupass"}
    /\ last.op # "Validate"
    /\ ~last.panicked
    /\ last.sent # <<>>
    /\ last.err # ConnectError

\* C14: a Core scan, a DocuPass create call or CreateSignature whose decoded
\* response has an error object with a non-empty message returns
\* "<code>: <message>" together with the decoded result; with no error object
\* or an empty message, whatever the code, it returns success.
C14_EmbeddedError ==
    TypedAnswered =>
        /\ last.result \in Decodings
        /\ IF last.result.error.present /\ last.result.error.message # ""
           THEN /\ last.err = ToString(last.result.error.code) \o ": " \o last.result.error.message
                /\ last.result.data # ""
           ELSE last.err = ""

\* CreateSignature answered with {"error":{"code":14,"message":"mismatch"},...}
C14_Witness ==
    /\ last.op = "CreateSignature"
    /\ last.err = "14: mismatch"
    /\ last.result = Body(APIError(14, "mismatch"), "partial")

\* a scan answered with an error object of code 7 and no message
C14_WitnessNoMessage ==
    /\ last.op = "ScanFront"
    /\ last.err = ""
    /\ last.result = Body(APIError(7, ""), "coded")

\* the answers that embed an error object with a non-empty message
ErrorAnswers ==
    {n \in NetOutcomes : n.ok /\ n.body.error.kind = "object" /\ n.body.error.message # ""}

AnsweredWith(n) ==
    /\ last.kind = "action"
    /\ ~last.panicked
    /\ last.sent # <<>>
    /\ last.sent[1].answer = n

\* C15: whichever facade and action, a call answered with a body that embeds
\* an error object with a non-empty message returns the error
\* "<code>: <message>"; no embedded application error is swallowed.
C15_NoErrorSwallowed ==
    \A n \in ErrorAnswers :
        AnsweredWith(n) =>
            last.err = ToString(n.body.error.code) \o ": " \o n.body.error.message

\* the call got past its local checks: it returned none of their errors and
\* did not abort in them
PassedValidation ==
    /\ last.kind = "action"
    /\ last.err \notin ValidationErrors
    /\ ~(last.panicked /\ last.sent = <<>>)

\* the errors of the form "<code>: <message>" the answers can give rise to
CodedErrors ==
    {ToString(n.body.error.code) \o ": " \o n.body.error.message : n \in ErrorAnswers}

\* C16: an action call that passes local validation issues exactly one POST
\* and ends in exactly one of success, application failure and transport
\* failure; a transport failure returns the zero result and the error
\* "failed to connect to API server: ...", never "<code>: <message>".
C16_OneRoundTrip ==
    PassedValidation =>
        /\ Len(last.sent) = 1
        /\ ~last.panicked
        /\ IF ~last.sent[1].answer.ok
           THEN /\ last.err = ConnectError
                /\ last.err \notin CodedErrors
                /\ last.result = ZeroResult
           ELSE last.err # ConnectError

(***************************************************************************)
(* Configuration invariants                                                *)
(***************************************************************************)
\* C17: in every reachable configuration of CoreAPI and DocuPassAPI the
\* resize scale is 0 or within [500, 4000], every biometric threshold is in
\* (0, 1], the authenticity minimum score is in [0, 1], the attempt count is
\* in [1, 10], and the QR size and margin are each in [1, 50].
C17_NumericRanges ==
    /\ core.config.ocrScaledown = 0 \/ core.config.ocrScaledown \in 500..4000
    /\ FGt(core.config.biometricThreshold, F(0)) /\ FLe(core.config.biometricThreshold, F(1000))
    /\ FGt(docupass.config.biometricThreshold, F(0))
    /\ FLe(docupass.config.biometricThreshold, F(1000))
    /\ FLe(F(0), docupass.config.authenticateMinScore)
    /\ FLe(docupass.config.authenticateMinScore, F(1000))
    /\ docupass.config.maxAttempt \in 1..10
    /\ docupass.config.qrSize \in 1..50
    /\ docupass.config.qrMargin \in 1..50

\* C18: in every reachable configuration the output mode is "url" or
\* "base64", the authentication module is "1", "2" or "quick", the contract
\* format is empty or one of PDF, DOCX and HTML, the DocuPass
\* face-verification type is 0, 1 or 2, and the AML entity type is empty,
\* "person" or "legalentity".
C18_Enumerations ==
    /\ core.config.outputMode \in {"url", "base64"}
    /\ core.config.authenticateModule \in {"1", "2", "quick"}
    /\ docupass.config.authenticateModule \in {"1", "2", "quick"}
    /\ core.config.contractFormat \in {"", "PDF", "DOCX", "HTML"}
    /\ docupass.config.contractFormat \in {"", "PDF", "DOCX", "HTML"}
    /\ docupass.config.biometric \in {0, 1, 2}
    /\ aml.amlEntityType \in {"", "person", "legalentity"}

\* EnableImageOutput refused the format "png" on a facade that
\* EnableImageOutput had set to "base64"
C18_Witness ==
    /\ last.facade = "core" /\ last.op = "EnableImageOutput"
    /\ last.args[3] = "png"
    /\ last.err # ""
    /\ core.config.outputMode = "base64"

(***************************************************************************)
(* Single setters                                                          *)
(***************************************************************************)
\* C19: CoreAPI.SetBiometricThreshold(t) succeeds exactly when 0 < t <= 1; on
\* success the stored threshold is t, and it is the biometric_threshold the
\* next scan sends; on failure the stored threshold is unchanged.
C19_BiometricThreshold ==
    /\ (last.facade = "core" /\ last.op = "SetBiometricThreshold") =>
          LET t == last.args[1]
          IN /\ (last.err = "") <=> (~t.nan /\ 0 < t.milli /\ t.milli <= 1000)
             /\ last.err = "" => core.config.biometricThreshold = t
             /\ last.err # "" => core.config.biometricThreshold = pre.core.config.biometricThreshold
    /\ (IsScan /\ last.sent # <<>>) =>
          /\ ~last.sent[1].body.nil
          /\ last.sent[1].body.json.BiometricThreshold = core.config.biometricThreshold

\* one or more digits, a hyphen, one or more digits
DigitsHyphenDigits(s) ==
    \E h \in 2..(Len(s) - 1) :
        /\ s[h] = "-"
        /\ \A i \in (1..Len(s)) \ {h} : s[i] \in Digit

\* C20: VerifyAge of CoreAPI and DocuPassAPI stores a string of digits, a
\* hyphen and digits; for any other non-empty string it returns the format
\* error and leaves the configuration unchanged; the stored age range is
\* always empty or of that form.
C20_VerifyAge ==
    /\ (last.op = "VerifyAge" /\ DigitsHyphenDigits(last.args[1])) =>
          /\ last.err = ""
          /\ last.facade = "core" => core.config.verifyAge = last.args[1]
          /\ last.facade = "docupass" => docupass.config.verifyAge = last.args[1]
    /\ (last.op = "VerifyAge" /\ last.args[1] # <<>> /\ ~DigitsHyphenDigits(last.args[1])) =>
          /\ last.err = "invalid age range format (minAge-maxAge)"
          /\ Snapshot = pre
    /\ core.config.verifyAge = <<>> \/ DigitsHyphenDigits(core.config.verifyAge)
    /\ docupass.config.verifyAge = <<>> \/ DigitsHyphenDigits(docupass.config.verifyAge)

\* VerifyAge("1-2-3") refused on a DocuPass facade that holds "18-120"
C20_Witness ==
    /\ last.facade = "docupass" /\ last.op = "VerifyAge"
    /\ last.args[1] = Age_Three
    /\ last.err # ""
    /\ docupass.config.verifyAge = Age_OK

(***************************************************************************)
(* The request on the wire                                                 *)
(***************************************************************************)
\* the facade the last call was made on
Facade ==
    IF last.facade = "core" THEN core
    ELSE IF last.facade = "docupass" THEN docupass
    ELSE IF last.facade = "aml" THEN aml
    ELSE vault

\* the "apikey" and "client" members of a request body; a vault body is a map
\* and Validate's a map without "client"
WireKey(j) == IF "apikey" \in DOMAIN j THEN j["apikey"] ELSE j["ApiKey"]

WireClient(j) ==
    IF "client" \in DOMAIN j THEN j["client"]
    ELSE IF "Client" \in DOMAIN j THEN j["Client"]
    ELSE "(none)"

\* the members of a body that are copies of configuration fields
WireConfig(j) ==
    IF last.facade = "core"
    THEN [j EXCEPT !.Url = <<>>, !.UrlBack = <<>>, !.FaceUrl = <<>>, !.VideoUrl = <<>>,
                   !.FileBase64 = <<>>, !.FileBackBase64 = <<>>, !.FaceBase64 = <<>>,
                   !.VideoBase64 = <<>>, !.Passcode = <<>>] = coreRequest(core)
    ELSE IF last.facade = "docupass" /\ last.op = "CreateSignature"
    THEN [j EXCEPT !.TemplateID = "", !.ContractFormat = "", !.ContractPrefillData = <<>>]
            = [requestFromConfig(docupass) EXCEPT !.TemplateID = "", !.ContractFormat = "",
                                                  !.ContractPrefillData = <<>>]
    ELSE IF last.facade = "docupass" /\ last.op # "Validate"
    THEN [j EXCEPT !.Type = 0] = [requestFromConfig(docupass) EXCEPT !.Type = 0]
    ELSE IF last.facade = "aml"
    THEN j.Database = aml.amlDatabases /\ j.Entity = aml.amlEntityType
    ELSE TRUE

\* C21: every request an action sends carries the facade's API key in
\* "apikey" and "go-sdk" in "client", and its configuration-derived members
\* equal the configuration at the time of the call; TrainFace and
\* TrainingStatus, which have no argument to refuse, always send theirs.
C21_Stamped ==
    /\ last.op \in {"TrainFace", "TrainingStatus"} => last.sent # <<>>
    /\ \A i \in 1..Len(last.sent) :
          /\ ~last.sent[i].body.nil
          /\ WireKey(last.sent[i].body.json) = Facade.apiKey
          /\ WireClient(last.sent[i].body.json) = "go-sdk"
          /\ WireConfig(last.sent[i].body.json)

(***************************************************************************)
(* Endpoints                                                               *)
(***************************************************************************)
\* the base a region stands for
RegionBase(r) ==
    CASE r \in {"", "us", "US"} -> "https://api.idanalyzer.com"
      [] r \in {"eu", "EU"} -> "https://api-eu.idanalyzer.com"
      [] OTHER -> r

SubPath == [core |-> "", docupass |-> "docupass", aml |-> "aml", vault |-> "vault"]

\* the action name each DocuPass and Vault operation posts to
WireAction ==
    [CreateIFrame |-> "create", CreateMobile |-> "create", CreateRedirection |-> "create",
     CreateLiveMobile |-> "create", CreateSignature |-> "sign", Validate |-> "validate",
     Get |-> "get", List |-> "list", Update |-> "update", Delete |-> "delete",
     AddImage |-> "addimage", DeleteImage |-> "deleteimage", SearchFace |-> "searchface",
     TrainFace |-> "train", TrainingStatus |-> "trainstatus"]

\* C22: the endpoint of each facade is the base its region stands for (the US
\* host for "", "us", "US", the EU host for "eu", "EU", any other string
\* verbatim) followed by "/" and the facade's sub-path, in every state: after
\* construction and after every setter, reset and action; and every request a
\* DocuPass or Vault action sends goes to "<endpoint>/<action>"
C22_Endpoint ==
    /\ core.apiEndpoint = RegionBase(regionGiven) \o "/" \o SubPath.core
    /\ docupass.apiEndpoint = RegionBase(regionGiven) \o "/" \o SubPath.docupass
    /\ aml.apiEndpoint = RegionBase(regionGiven) \o "/" \o SubPath.aml
    /\ vault.apiEndpoint = RegionBase(regionGiven) \o "/" \o SubPath.vault
    /\ last.facade \in {"docupass", "vault"} =>
          \A i \in 1..Len(last.sent) :
              last.sent[i].url
                  = RegionBase(regionGiven) \o "/" \o SubPath[last.facade] \o "/" \o WireAction[last.op]

\* a second call in a row on a facade of the EU region in capitals sent a request
C22_Witness ==
    /\ regionGiven = "EU"
    /\ calls = 2
    /\ last.facade \in {"docupass", "vault"}
    /\ last.sent # <<>>

\* a facade of a region of the caller's own sent a request
C22_WitnessVerbatim ==
    /\ regionGiven \notin {"", "us", "US", "eu", "EU"}
    /\ calls = 2
    /\ last.kind = "action"
    /\ last.sent # <<>>
(***************************************************************************)
(* Concurrent setters                                                      *)
(***************************************************************************)
\* the payload the action builds from the configuration before the setter and
\* from the one after it
WholePayloads ==
    {RaceCall(pre[inst].config, ConnFail).payload, RaceCall(race.target, ConnFail).payload}

\* C23: when the setter and the action on one instance run under one lock,
\* the payload the action sends reflects all of the setter's update or none of
\* it; without a lock a payload with some new and some old values can be sent
\* (C23_Torn is reachable)
C23_SerializedAllOrNone ==
    race.mode = "locked" /\ race.sent => last.payload \in WholePayloads

\* without a lock the action sent a payload holding some of the setter's new
\* values beside old ones
C23_Torn ==
    /\ race.mode = "free"
    /\ race.sent
    /\ last.sent # <<>>
    /\ last.payload \notin WholePayloads
(***************************************************************************)
(* Permissive decoding                                                     *)
(***************************************************************************)
\* the last call was an action whose request the server answered
Answered ==
    /\ last.kind = "action"
    /\ last.sent # <<>>
    /\ last.sent[Len(last.sent)].answer.ok

\* the body of the answer embeds an error with a non-empty message
EmbedsMessage(body) ==
    /\ body.valid
    /\ body.error.kind = "object"
    /\ body.error.hasMessage
    /\ body.error.message # ""

\* C24: whatever body the server answers with, the action returns to its
\* caller rather than aborting, and it returns success unless the body embeds
\* an error with a non-empty message
C24_AlwaysReturns ==
    Answered =>
        /\ ~last.panicked
        /\ ~EmbedsMessage(last.sent[Len(last.sent)].answer.body) => last.err = ""
(***************************************************************************)
(* Private addresses                                                       *)
(***************************************************************************)
\* loopback, link-local, or inside one of the eight blocks
InPrivateRanges(ip) ==
    \/ IsLoopback(ip)
    \/ IsLinkLocalUnicast(ip)
    \/ IsLinkLocalMulticast(ip)
    \/ \E i \in DOMAIN privateIPBlocks : Contains(privateIPBlocks[i], ip)

\* C25: isPrivateIP answers true for every address that is loopback,
\* link-local or inside one of the eight blocks, and answers the same whether
\* the build's IP type has the IsPrivate method or not
C25_PrivateIP ==
    probe.asked =>
        /\ InPrivateRanges(probe.ip) => probe.private
        /\ probe.private = isPrivateIP(probe.ip, ~methodIsPrivate)
(***************************************************************************)
(* Face video without a passcode                                           *)
(***************************************************************************)
\* a media argument that is supplied and is a URL, a file or inline data
ValidMedia(m) == m # <<>> /\ classifyMedia(m, fs[m]).kind \in {"url", "file", "inline"}

\* C26: ScanFrontVideo and ScanBothVideo with valid documents and a valid
\* face video put the video into the payload and send one request
C26_VideoWithoutPasscode ==
    /\ last.op \in {"ScanFrontVideo", "ScanBothVideo"}
    /\ ValidMedia(last.args[1])
    /\ last.op = "ScanBothVideo" => ValidMedia(last.args[2])
    /\ ValidMedia(last.args[4])
    => /\ ~last.panicked
       /\ Len(last.sent) = 1
       /\ last.payload.VideoUrl = classifyMedia(last.args[4], fs[last.args[4]]).url
       /\ last.payload.VideoBase64 = classifyMedia(last.args[4], fs[last.args[4]]).base64
(***************************************************************************)
(* Classification always ends                                              *)
(***************************************************************************)
\* C27: classifying a non-empty media string ends in one of RemoteURL,
\* LocalFile, InlineEncoded and Invalid, whatever the file system answers: a
\* scan whose primary document is not empty never aborts, and a primary
\* document whose lookup fails for another reason than absence is taken as
\* inline data when it is long enough
C27_ClassificationEnds ==
    last.facade = "core" /\ last.kind = "action" /\ last.args[1] # <<>> =>
        /\ classifyMedia(last.args[1], fs[last.args[1]]).kind \in {"url", "file", "inline", "invalid"}
        /\ ~last.panicked
(***************************************************************************)
(* One contract mode at a time                                             *)
(***************************************************************************)
ContractCalls == {"GenerateContract", "SignContract"}

\* C28: in every DocuPass configuration at most one of contractGenerate and
\* contractSign is set; a successful GenerateContract clears contractSign, a
\* successful SignContract clears contractGenerate, a failed call of either
\* changes neither, and both are empty after construction and ResetConfig
C28_OneContract ==
    /\ docupass.config.contractGenerate = "" \/ docupass.config.contractSign = ""
    /\ last.facade = "docupass" /\ last.op = "GenerateContract" /\ last.err = "" =>
          /\ docupass.config.contractGenerate = last.args[1]
          /\ docupass.config.contractSign = ""
    /\ last.facade = "docupass" /\ last.op = "SignContract" /\ last.err = "" =>
          /\ docupass.config.contractSign = last.args[1]
          /\ docupass.config.contractGenerate = ""
    /\ last.facade = "docupass" /\ last.op \in ContractCalls /\ last.err # "" =>
          /\ docupass.config.contractGenerate = pre.docupass.config.contractGenerate
          /\ docupass.config.contractSign = pre.docupass.config.contractSign
    /\ last = NoCall \/ (last.facade = "docupass" /\ last.op = "ResetConfig") =>
          /\ docupass.config.contractGenerate = ""
          /\ docupass.config.contractSign = ""

\* SignContract succeeded on a configuration that GenerateContract had set
C28_Witness ==
    /\ last.facade = "docupass"
    /\ last.op = "SignContract"
    /\ last.err = ""
    /\ pre.docupass.config.contractGenerate # ""
    /\ docupass.config.contractSign # ""

\* a failed SignContract left the template of GenerateContract in place
C28_WitnessFailed ==
    /\ last.facade = "docupass"
    /\ last.op = "SignContract"
    /\ last.err # ""
    /\ docupass.config.contractGenerate # ""
(***************************************************************************)
(* The order of the checks of a scan                                       *)
(***************************************************************************)
\* a supplied media argument that is no URL, names no file (a lookup that
\* fails counts as no file) and is too short to be inline data
InvalidMedia(m) ==
    /\ m # <<>>
    /\ \/ classifyMedia(m, fs[m]).kind = "invalid"
       \/ classifyMedia(m, fs[m]).kind = "panic" /\ Len(m) <= InlineMinLen

\* the error the fixed order of the checks gives a scan, "" when none applies
FirstError(op, a) ==
    IF op \in TwoSidedOps /\ a[2] = <<>> THEN "secondary document image required"
    ELSE IF a[1] = <<>> THEN "primary document image required"
    ELSE IF InvalidMedia(a[1])
    THEN "invalid primary document image, file not found or malformed URL"
    ELSE IF InvalidMedia(a[2])
    THEN "invalid secondary document image, file not found or malformed URL"
    ELSE IF InvalidMedia(a[3]) THEN "invalid face image, file not found or malformed URL"
    ELSE IF InvalidMedia(a[4]) THEN "invalid face video, file not found or malformed URL"
    ELSE IF a[4] # <<>> /\ ~(Len(a[5]) >= 4 /\ AllIn(Take(a[5], 4), Digit))
    THEN "please provide a 4 digit passcode for video biometric verification"
    ELSE ""

\* C29: a scan with one or several invalid arguments returns the one error
\* that comes first in the fixed order (empty secondary of a two-sided scan,
\* empty primary, invalid primary, invalid secondary, invalid face image,
\* invalid face video, passcode) and sends nothing; the passcode is tested and
\* copied into the payload only when a face video is supplied
C29_FirstError ==
    last.facade = "core" /\ last.kind = "action" =>
        /\ FirstError(last.op, last.args) # "" =>
              /\ ~last.panicked
              /\ last.err = FirstError(last.op, last.args)
              /\ last.sent = <<>>
        /\ last.sent # <<>> =>
              last.payload.Passcode = IF last.args[4] # <<>> THEN last.args[5] ELSE <<>>
(***************************************************************************)
(* The caller's arguments                                                  *)
(***************************************************************************)
\* the data the caller handed to Update: the map of the second argument, or,
\* in the typed text, the VaultData value with the ID in it
CallerData == IF vaultRevision = 1 THEN MapSet(last.args[2], "id", last.args[1]) ELSE last.args[2]

\* C30: after VaultAPI.Update returns, with or without an error, the data the
\* caller passed holds exactly the keys and values it held before the call
C30_ArgumentsUnchanged ==
    last.facade = "vault" /\ last.op = "Update" => last.data = CallerData
====
